---- MODULE Spec2Model ----
(***************************************************************************)
(* Verification model of hashdb (simsong/hashdb).                          *)
(*                                                                         *)
(*  Part 1  prefix/suffix hash store   lmdb_hash_manager_t (hash store)    *)
(*  Part 2  suffix-set codec           encode_data / decode_data           *)
(*  Part 3  hash-data store            lmdb_hash_manager_t (hash data)     *)
(*  Part 4  set-algebra operators      commands_t                          *)
(*  Part 5  threads on the hash store  lmdb_hash_manager_t, per statement  *)
(*  Part 6  JSON import                import_json_t                       *)
(*  Part 7  hash store life cycle      constructor, fatal errors, buffer   *)
(*  Part 8  hash-data insert by steps  insert with a concurrent scanner    *)
(*                                                                         *)
(* Bytes are integers 0..255, byte strings are sequences of bytes.         *)
(***************************************************************************)
EXTENDS Integers, Sequences, FiniteSets, TLC

VARIABLES
  prefix_bits,      \* p_hash_prefix_bits given to the hash store constructor:
                    \* its low 16 bits (the whole value below 65536)
  suffix_bytes,     \* lmdb_hash_manager_t::suffix_bytes
  hash_store,       \* the lmdb_hash_store DB: prefix string -> encoded suffix set
  suffix_strings,   \* lmdb_hash_manager_t::suffix_strings (scratch set)
  lmdb_changes,     \* lmdb_changes_t counters of the hash store
  hs_last,          \* the last hash store call that returned, with its result
  hs_inserted,      \* history: the hashes whose insert has returned
  hs_calls,         \* history: number of insert calls made
  cd_pc,            \* codec round trip: "start", "encoded", "decoded", "overflow"
  cd_strings,       \* codec round trip: the set given to encode_data
  cd_encoding,      \* codec round trip: the string encode_data returned
  cd_decoded,       \* codec round trip: the set decode_data left
  cd_consumed,      \* codec round trip: decode_data consumed the whole encoding
  sector_size,      \* settings.sector_size of the hash-data store
  hash_truncation,  \* settings.hash_truncation of the hash-data store
  hash_data_store,  \* the hash-data DB: key -> its values in cursor order
  bloom,            \* the bits set in the bloom filter
  hashdb_changes,   \* hashdb_changes_t counters of the hash-data store
  hd_log,           \* history: the entries submitted, each with its source_id
  cmd_op,           \* the set-algebra command that runs
  cmd_dirs,         \* its arguments hashdb_dir1, hashdb_dir2, hashdb_dir3
  cmd_pc,           \* its position: "start", "check", "loop", "log", "merge",
                    \* "done", or "exit" after exit(1)
  db,               \* the databases on disk, by directory
  it1,              \* position of the iterator over the first input
  it2,              \* position of the iterator over the second input
  cmd_changes,      \* the hashdb_changes_t of the command
  cmd_submitted,    \* history: the elements given to insert on the destination
  cmd_merged,       \* history: the directories whose history was merged
  stop_flag,        \* the stop flag of the caller of a command
  th_state,         \* the threads in insert or find: position and locals
  M,                \* lmdb_hash_manager_t::M, the thread that holds it
  in_lines,         \* the lines of the stream given to import_json_t::read
  in_pos,           \* the number of lines getline has taken from the stream
  line_number,      \* import_json_t::line_number
  manager_calls,    \* history: the calls made on import_json_t::manager
  invalid_lines,    \* history: the calls of report_invalid_line
  prefix_bits_hi,   \* the high 16 bits of p_hash_prefix_bits
  hs_status,        \* the hash store object: "none" before construction,
                    \* "open", "abort" after assert(0), "overflow" after a
                    \* write past the buffer of encode_data
  hd_call,          \* the hash-data insert in progress: position and locals
  hd_scan           \* the last lookup of a scanner in the hash-data store

hs_vars == <<prefix_bits, suffix_bytes, hash_store, suffix_strings,
             lmdb_changes, hs_last, hs_inserted, hs_calls>>

cd_vars == <<cd_pc, cd_strings, cd_encoding, cd_decoded, cd_consumed>>

hd_vars == <<sector_size, hash_truncation, hash_data_store, bloom,
             hashdb_changes, hd_log>>

cmd_vars == <<cmd_op, cmd_dirs, cmd_pc, db, it1, it2, cmd_changes,
              cmd_submitted, cmd_merged>>

th_vars == <<th_state, M>>

ij_vars == <<in_lines, in_pos, line_number, manager_calls, invalid_lines>>

hds_vars == <<hd_call, hd_scan>>

lc_vars == <<hs_status, prefix_bits_hi>>

ext_vars == <<ij_vars, lc_vars, hds_vars>>

vars == <<hs_vars, cd_vars, hd_vars, cmd_vars, stop_flag, th_vars, ext_vars>>

-----------------------------------------------------------------------------
(* Bounds of the model *)

MaxHashLen == 3        \* longest block hash, in bytes
MaxSuffixBytes == 2    \* largest configured hash suffix bytes
MaxCalls == 2          \* number of insert calls on the hash store
MaxStrLen == 2         \* longest string of a set given to the codec
MaxEntries == 3        \* entries submitted to the hash-data store in all
BloomM == 4            \* number of bits of the bloom filter
MaxElems == 3          \* elements of a database given to a command

\* the byte values block hashes are made of: 0x10 and 0x1f differ only in
\* their low bits, so that a prefix mask can merge them
ByteVals == {16, 31}

RECURSIVE SeqsUpTo(_, _)
SeqsUpTo(S, n) ==
  IF n = 0 THEN {<<>>}
  ELSE LET shorter == SeqsUpTo(S, n - 1)
       IN  shorter \cup {Append(s, b) : s \in {t \in shorter : Len(t) = n - 1}, b \in S}

\* the configured hash prefix bits of the model: a masked and a whole last
\* prefix byte, for one and for two prefix bytes
PrefixBitsChoices == {4, 8, 12, 16}

\* every non-empty block hash of the model
Hashes == SeqsUpTo(ByteVals, MaxHashLen) \ {<<>>}

Min(a, b) == IF a < b THEN a ELSE b

\* p_hash_prefix_bits is a uint32_t, held as two halves of 16 bits:
\* its value is prefix_bits_hi * Half + prefix_bits
Half == 65536

-----------------------------------------------------------------------------
(* Part 1: the prefix/suffix hash store *)

\* static uint8_t masks[8]
masks == <<255, 128, 192, 224, 240, 248, 252, 254>>

\* the C operator & on two bytes
RECURSIVE BitAnd(_, _)
BitAnd(a, b) ==
  IF a = 0 \/ b = 0 THEN 0
  ELSE (a % 2) * (b % 2) + 2 * BitAnd(a \div 2, b \div 2)

\* prefix_bytes((p_hash_prefix_bits + 7) / 8)
prefix_bytes ==
  LET low == (prefix_bits + 7) % Half
      carry == (prefix_bits + 7) \div Half
      high == (prefix_bits_hi + carry) % Half
  IN  high * (Half \div 8) + low \div 8

\* prefix_mask(masks[p_hash_prefix_bits % 8])
prefix_mask == masks[(prefix_bits % 8) + 1]

\* std::string::substr(pos, n) for pos <= size
substr(s, pos, n) == SubSeq(s, pos + 1, Min(pos + n, Len(s)))

\* the prefix string of hash_pair, before masking
prefix_size(binary_hash) ==
  IF Len(binary_hash) > prefix_bytes THEN prefix_bytes ELSE Len(binary_hash)

\* faulty variant of hash_pair: masks the last prefix byte of every hash,
\* also of one shorter than prefix_bytes
hash_pair_always_masked(binary_hash) ==
  LET hash_size == Len(binary_hash)
      psize == prefix_size(binary_hash)
      raw == substr(binary_hash, 0, psize)
      suffix_start == IF hash_size - suffix_bytes < psize
                      THEN psize ELSE hash_size - suffix_bytes
  IN  <<[raw EXCEPT ![psize] = BitAnd(raw[psize], prefix_mask)],
        IF suffix_start < hash_size
        THEN substr(binary_hash, suffix_start, suffix_bytes) ELSE <<>> >>

\* faulty variant of hash_pair: the suffix string is left empty
hash_pair_suffix_dropped(binary_hash) ==
  LET psize == prefix_size(binary_hash)
      raw == substr(binary_hash, 0, psize)
  IN  <<IF psize = prefix_bytes
        THEN [raw EXCEPT ![prefix_bytes] = BitAnd(raw[prefix_bytes], prefix_mask)]
        ELSE raw,
        <<>> >>

\* lmdb_hash_manager_t::hash_pair: <<prefix string, suffix string>>
hash_pair(binary_hash) ==
  LET hash_size == Len(binary_hash)
      psize == prefix_size(binary_hash)
      raw == substr(binary_hash, 0, psize)
      prefix_string ==
        IF psize = prefix_bytes
        THEN [raw EXCEPT ![prefix_bytes] = BitAnd(raw[prefix_bytes], prefix_mask)]
        ELSE raw
      suffix_start == IF hash_size - suffix_bytes < psize
                      THEN psize ELSE hash_size - suffix_bytes
      suffix_string == IF suffix_start < hash_size
                       THEN substr(binary_hash, suffix_start, suffix_bytes)
                       ELSE <<>>
  IN  <<prefix_string, suffix_string>>

-----------------------------------------------------------------------------
(* Part 2: the suffix-set codec *)

\* bytes reserved per string by encode_data: max_size = strings.size() * 16
BytesPerString == 16

\* unsigned LEB-style variable-length integer, 7 data bits per byte
RECURSIVE encode_uint64(_)
encode_uint64(n) ==
  IF n < 128 THEN <<n>> ELSE <<128 + (n % 128)>> \o encode_uint64(n \div 128)

\* decode a variable-length integer at 0-based position p of buf:
\* <<value, position after it>>; bytes past the end of buf read as 0
RECURSIVE decode_uint64(_, _)
decode_uint64(buf, p) ==
  IF p >= Len(buf) THEN <<0, p + 1>>
  ELSE IF buf[p + 1] < 128 THEN <<buf[p + 1], p + 1>>
  ELSE LET rest == decode_uint64(buf, p + 1)
       IN  <<(buf[p + 1] - 128) + 128 * rest[1], rest[2]>>

\* lmdb_helper::encode_string: varint length, then the raw bytes
encode_string(s) == encode_uint64(Len(s)) \o s

\* lmdb_helper::decode_string at position p: <<string, position after it>>;
\* the pointer advances by the declared length whatever the buffer holds
decode_string(buf, p) ==
  LET len == decode_uint64(buf, p)
  IN  <<SubSeq(buf, len[2] + 1, Min(len[2] + len[1], Len(buf))), len[2] + len[1]>>

\* std::string operator< : lexicographic on unsigned bytes
RECURSIVE LexLess(_, _)
LexLess(a, b) ==
  IF b = <<>> THEN FALSE
  ELSE IF a = <<>> THEN TRUE
  ELSE IF Head(a) # Head(b) THEN Head(a) < Head(b)
  ELSE LexLess(Tail(a), Tail(b))

\* iteration order of a std::set<std::string>
RECURSIVE set_order(_)
set_order(strings) ==
  IF strings = {} THEN <<>>
  ELSE LET first == CHOOSE s \in strings : \A t \in strings \ {s} : LexLess(s, t)
       IN  <<first>> \o set_order(strings \ {first})

RECURSIVE concat_encoded(_)
concat_encoded(ss) ==
  IF ss = <<>> THEN <<>> ELSE encode_string(Head(ss)) \o concat_encoded(Tail(ss))

\* faulty variant of encode_data: the strings without their length prefix
encode_data_no_length(strings) ==
  LET RECURSIVE raw(_)
      raw(ss) == IF ss = <<>> THEN <<>> ELSE Head(ss) \o raw(Tail(ss))
  IN  raw(set_order(strings))

\* lmdb_hash_manager_t::encode_data: the bytes written at encoding[0..]
encode_data(strings) == concat_encoded(set_order(strings))

\* encode_data writes past uint8_t encoding[max_size]
encode_overflows(strings) ==
  Len(encode_data(strings)) > Cardinality(strings) * BytesPerString

\* the while(p < p_stop) loop of decode_data from position p:
\* <<strings inserted, final position>>
RECURSIVE decode_loop(_, _, _)
decode_loop(encoding, p, strings) ==
  IF p < Len(encoding)
  THEN LET d == decode_string(encoding, p)
       IN  decode_loop(encoding, d[2], strings \cup {d[1]})
  ELSE <<strings, p>>

\* lmdb_hash_manager_t::decode_data: the set left in strings
decode_data(encoding) == decode_loop(encoding, 0, {})[1]

\* decode_data's check that the decoding was properly consumed
decode_consumed(encoding) == decode_loop(encoding, 0, {})[2] = Len(encoding)

-----------------------------------------------------------------------------
(* Part 1, continued: the operations of the hash store *)

HsInit ==
  /\ prefix_bits \in PrefixBitsChoices
  /\ suffix_bytes \in 0..MaxSuffixBytes
  /\ hash_store = <<>>
  /\ suffix_strings = {}
  /\ lmdb_changes = [hash_inserted |-> 0, hash_already_present |-> 0]
  /\ hs_last = [op |-> "none"]
  /\ hs_inserted = {}
  /\ hs_calls = 0

\* faulty variant of write_back: the suffixes already stored are dropped
write_back_new_only(decoded, suffix) == {suffix}

\* the set insert writes back when the prefix exists and the suffix is new:
\* suffix_strings->insert(pair.second) after decode_data
write_back(decoded, suffix) == decoded \cup {suffix}

\* mdb_put on the hash store (no duplicates): set the value at key
hs_put(key, data) ==
  [k \in DOMAIN hash_store \cup {key} |-> IF k = key THEN data ELSE hash_store[k]]

\* faulty variant of HsInsert: a hash already present is counted as inserted
HsInsert_counts_inserted(binary_hash) ==
  LET pair == hash_pair(binary_hash)
      found == pair[1] \in DOMAIN hash_store
      decoded == decode_data(hash_store[pair[1]])
      stored == IF found THEN write_back(decoded, pair[2]) ELSE {pair[2]}
  IN  /\ hs_calls < MaxCalls
      /\ hs_calls' = hs_calls + 1
      /\ hs_inserted' = hs_inserted \cup {binary_hash}
      /\ hs_last' = [op |-> "insert"]
      /\ suffix_strings' = stored
      /\ hash_store' = IF found /\ pair[2] \in decoded THEN hash_store
                       ELSE hs_put(pair[1], encode_data(stored))
      /\ lmdb_changes' = [lmdb_changes EXCEPT !.hash_inserted = @ + 1]
      /\ UNCHANGED <<prefix_bits, suffix_bytes>>
      /\ UNCHANGED <<cd_vars, hd_vars, cmd_vars, stop_flag, th_vars, ext_vars>>

\* lmdb_hash_manager_t::insert(binary_hash, changes)
HsInsert(binary_hash) ==
  LET pair == hash_pair(binary_hash)
      found == pair[1] \in DOMAIN hash_store
      decoded == decode_data(hash_store[pair[1]])
  IN  /\ hs_calls < MaxCalls
      /\ hs_calls' = hs_calls + 1
      /\ hs_inserted' = hs_inserted \cup {binary_hash}
      /\ hs_last' = [op |-> "insert"]
      /\ IF ~found
         THEN \* prefix and suffix are new
              /\ suffix_strings' = {pair[2]}
              /\ hash_store' = hs_put(pair[1], encode_data({pair[2]}))
              /\ lmdb_changes' = [lmdb_changes EXCEPT !.hash_inserted = @ + 1]
         ELSE IF pair[2] \in decoded
         THEN \* suffix already exists, hash not inserted
              /\ suffix_strings' = decoded
              /\ hash_store' = hash_store
              /\ lmdb_changes' = [lmdb_changes EXCEPT !.hash_already_present = @ + 1]
         ELSE \* suffix did not exist, so add suffix and write back
              /\ suffix_strings' = write_back(decoded, pair[2])
              /\ hash_store' = hs_put(pair[1], encode_data(write_back(decoded, pair[2])))
              /\ lmdb_changes' = [lmdb_changes EXCEPT !.hash_inserted = @ + 1]
      /\ UNCHANGED <<prefix_bits, suffix_bytes>>
      /\ UNCHANGED <<cd_vars, hd_vars, cmd_vars, stop_flag, th_vars, ext_vars>>

\* lmdb_hash_manager_t::find(binary_hash)
HsFind(binary_hash) ==
  LET pair == hash_pair(binary_hash)
      found == pair[1] \in DOMAIN hash_store
      decoded == decode_data(hash_store[pair[1]])
  IN  /\ IF ~found
         THEN /\ hs_last' = [op |-> "find", hash |-> binary_hash, result |-> FALSE]
              /\ suffix_strings' = suffix_strings
         ELSE /\ hs_last' = [op |-> "find", hash |-> binary_hash,
                             result |-> (pair[2] \in decoded)]
              /\ suffix_strings' = decoded
      /\ UNCHANGED <<prefix_bits, suffix_bytes, hash_store, lmdb_changes,
                     hs_inserted, hs_calls>>
      /\ UNCHANGED <<cd_vars, hd_vars, cmd_vars, stop_flag, th_vars, ext_vars>>

\* the hash store is not in use
HsIdle ==
  /\ prefix_bits = 8
  /\ suffix_bytes = 0
  /\ hash_store = <<>>
  /\ suffix_strings = {}
  /\ lmdb_changes = [hash_inserted |-> 0, hash_already_present |-> 0]
  /\ hs_last = [op |-> "none"]
  /\ hs_inserted = {}
  /\ hs_calls = 0

-----------------------------------------------------------------------------
(* Part 2, continued: encode_data and decode_data applied to a set *)

\* the byte values of the strings given to the codec: 0 and 1 are also the
\* length prefixes of the empty and the one-byte string
CodecBytes == {0, 1}

CodecStrings == SeqsUpTo(CodecBytes, MaxStrLen)

CdInit ==
  /\ cd_pc = "start"
  /\ cd_strings \in (SUBSET CodecStrings) \ {{}}
  /\ cd_encoding = <<>>
  /\ cd_decoded = {}
  /\ cd_consumed = FALSE

\* encoding = encode_data(strings); writing past the buffer is undefined
CdEncode ==
  /\ cd_pc = "start"
  /\ IF encode_overflows(cd_strings)
     THEN /\ cd_pc' = "overflow"
          /\ cd_encoding' \in {encode_data(cd_strings), <<>>}
     ELSE /\ cd_pc' = "encoded"
          /\ cd_encoding' = encode_data(cd_strings)
  /\ UNCHANGED <<cd_strings, cd_decoded, cd_consumed>>
  /\ UNCHANGED <<hs_vars, hd_vars, cmd_vars, stop_flag, th_vars, ext_vars>>

\* decode_data(encoding, strings)
CdDecode ==
  /\ cd_pc = "encoded"
  /\ cd_pc' = "decoded"
  /\ cd_decoded' = decode_data(cd_encoding)
  /\ cd_consumed' = decode_consumed(cd_encoding)
  /\ UNCHANGED <<cd_strings, cd_encoding>>
  /\ UNCHANGED <<hs_vars, hd_vars, cmd_vars, stop_flag, th_vars, ext_vars>>

\* no codec round trip is running
CdIdle ==
  /\ cd_pc = "idle"
  /\ cd_strings = {}
  /\ cd_encoding = <<>>
  /\ cd_decoded = {}
  /\ cd_consumed = FALSE

-----------------------------------------------------------------------------
(* Part 3: the hash-data store *)

\* the block hashes submitted: they agree on their first byte
HdHashes == {<<16, 16>>, <<16, 31>>}

\* the file offsets submitted: offset indexes below and above 127, and an
\* offset that is no multiple of the larger sector size
HdOffsets == {4, 6, 516, 1024}

HdSourceIds == {1, 2}

SectorSizes == {2, 4}

Truncations == {0, 1}

\* hash_data_t: an entry of a hash_data_list_t
HdEntries == [binary_hash : HdHashes, file_offset : HdOffsets]

\* lmdb_data_codec::encode_hash_data: varint(source-id), varint(offset-index)
encode_hash_data(source_id, index) == encode_uint64(source_id) \o encode_uint64(index)

\* lmdb_data_codec::decode_hash_data: <<source-id, offset-index>>
decode_hash_data(data) ==
  LET sid == decode_uint64(data, 0)
  IN  <<sid[1], decode_uint64(data, sid[2])[1]>>

\* the validation of the byte alignment: file_offset % sector_size == 0
is_aligned(file_offset) == file_offset % sector_size = 0

\* faulty variant of offset_index: % in place of /
offset_index_remainder(file_offset) == file_offset % sector_size

\* offset_index = it->file_offset / settings.sector_size
offset_index(file_offset) == file_offset \div sector_size

\* faulty variant of hd_key: the key is never truncated
hd_key_whole(binary_hash) == binary_hash

\* the key: binary_hash, truncated if truncation is used and it is longer
hd_key(binary_hash) ==
  IF hash_truncation # 0 /\ Len(binary_hash) > hash_truncation
  THEN SubSeq(binary_hash, 1, hash_truncation)
  ELSE binary_hash

\* faulty variant of entry_data: the arguments of encode_hash_data swapped
entry_data_swapped(source_id, file_offset) ==
  encode_hash_data(offset_index(file_offset), source_id)

\* the data: encode_hash_data(source_id, offset_index)
entry_data(source_id, file_offset) ==
  encode_hash_data(source_id, offset_index(file_offset))

\* the values stored at key, in cursor order
hd_values(store, key) == IF key \in DOMAIN store THEN store[key] ELSE <<>>

\* faulty variant of has_pair: the probe never finds the pair
has_pair_never(store, key, data) == FALSE

\* mdb_cursor_get(MDB_GET_BOTH) == 0: this exact key,data pair exists
has_pair(store, key, data) ==
  \E i \in 1..Len(hd_values(store, key)) : hd_values(store, key)[i] = data

\* mdb_put(MDB_NODUPDATA) on the duplicate-sorted DB: data goes among the
\* values of key at its place in byte order; an existing pair is left alone
hd_put(store, key, data) ==
  LET old == hd_values(store, key)
      before == SelectSeq(old, LAMBDA v : LexLess(v, data))
      after == SelectSeq(old, LAMBDA v : LexLess(data, v))
  IN  [k \in DOMAIN store \cup {key} |->
         IF k = key THEN before \o <<data>> \o after ELSE store[k]]

\* the bit of the bloom filter a hash maps to
bloom_bit(binary_hash) ==
  LET RECURSIVE sum(_)
      sum(h) == IF h = <<>> THEN 0 ELSE Head(h) + sum(Tail(h))
  IN  sum(binary_hash) % BloomM

\* bloom_filter_manager_t::add_hash_value: the manager is constructed with
\* settings.hash_truncation and hashes the truncated block hash
add_hash_value(bits, binary_hash) == bits \cup {bloom_bit(hd_key(binary_hash))}

\* bloom_filter_manager_t: the filter reports the hash possibly present
probably_contains(bits, binary_hash) == bloom_bit(hd_key(binary_hash)) \in bits

\* faulty variant of bloom_after_insert: the hash is not added
bloom_after_insert_skipped(bits, binary_hash) == bits

\* add hash to bloom filter, too, even if already there
bloom_after_insert(bits, binary_hash) == add_hash_value(bits, binary_hash)

\* one turn of the loop of insert over hash_data_list, on
\* st = [store, bloom, changes]
hd_insert_entry(st, source_id, e) ==
  IF ~is_aligned(e.file_offset)
  THEN [st EXCEPT !.changes.hashes_not_inserted_invalid_sector_size = @ + 1]
  ELSE LET key == hd_key(e.binary_hash)
           data == entry_data(source_id, e.file_offset)
       IN  IF has_pair(st.store, key, data)
           THEN [st EXCEPT !.changes.hashes_not_inserted_duplicate_element = @ + 1]
           ELSE [store |-> hd_put(st.store, key, data),
                 bloom |-> bloom_after_insert(st.bloom, e.binary_hash),
                 changes |-> [st.changes EXCEPT !.hashes_inserted = @ + 1]]

\* the loop of insert over hash_data_list
RECURSIVE hd_insert_list(_, _, _)
hd_insert_list(st, source_id, list) ==
  IF list = <<>> THEN st
  ELSE hd_insert_list(hd_insert_entry(st, source_id, Head(list)), source_id, Tail(list))

HdInit ==
  /\ sector_size \in SectorSizes
  /\ hash_truncation \in Truncations
  /\ hash_data_store = <<>>
  /\ bloom = {}
  \* the insert counters hashdb_changes_t declares, and
  \* hashes_not_inserted_invalid_sector_size, which insert increments
  /\ hashdb_changes = [hashes_inserted |-> 0,
                       hashes_not_inserted_mismatched_hash_block_size |-> 0,
                       hashes_not_inserted_invalid_byte_alignment |-> 0,
                       hashes_not_inserted_invalid_sector_size |-> 0,
                       hashes_not_inserted_exceeds_max_duplicates |-> 0,
                       hashes_not_inserted_duplicate_element |-> 0]
  /\ hd_log = <<>>

\* lmdb_hash_manager_t::insert(source_id, hash_data_list, changes)
HdInsert(source_id, hash_data_list) ==
  LET st == hd_insert_list([store |-> hash_data_store, bloom |-> bloom,
                            changes |-> hashdb_changes],
                           source_id, hash_data_list)
      logged == [i \in 1..Len(hash_data_list) |->
                   [source_id |-> source_id,
                    binary_hash |-> hash_data_list[i].binary_hash,
                    file_offset |-> hash_data_list[i].file_offset]]
  IN  /\ Len(hd_log) + Len(hash_data_list) <= MaxEntries
      /\ hash_data_store' = st.store
      /\ bloom' = st.bloom
      /\ hashdb_changes' = st.changes
      /\ hd_log' = hd_log \o logged
      /\ UNCHANGED <<sector_size, hash_truncation>>
      /\ UNCHANGED <<hs_vars, cd_vars, cmd_vars, stop_flag, th_vars, ext_vars>>

\* the hash-data store is not in use
HdIdle ==
  /\ sector_size = 1
  /\ hash_truncation = 0
  /\ hash_data_store = <<>>
  /\ bloom = {}
  /\ hashdb_changes = <<>>
  /\ hd_log = <<>>

-----------------------------------------------------------------------------
(* Part 4: the set-algebra commands *)

Dirs == {"A", "B", "C"}

Ops2 == {"add", "deduplicate"}

Ops3 == {"add_multiple", "intersect", "subtract"}

\* the settings.hash_block_size values of the databases
BlockSizes == {512, 4096}

\* hashdb_element_t: a block hash key and the source it was seen in
Elements == [key : {1, 2}, source : {"a", "b"}]

\* order of the elements of a database under its iterator
ElemLess(a, b) ==
  a.key < b.key \/ (a.key = b.key /\ LexLess(<<IF a.source = "a" THEN 0 ELSE 1>>,
                                              <<IF b.source = "a" THEN 0 ELSE 1>>))

RECURSIVE elem_order(_)
elem_order(S) ==
  IF S = {} THEN <<>>
  ELSE LET first == CHOOSE e \in S : \A f \in S \ {e} : ElemLess(e, f)
       IN  <<first>> \o elem_order(S \ {first})

\* the contents a database can start with, as its iterator yields them
Contents == {elem_order(S) : S \in {T \in SUBSET Elements : Cardinality(T) <= MaxElems}}

\* a directory that is no hashdb directory
NoDb == [exists |-> FALSE, hash_block_size |-> 0, content |-> <<>>, history |-> <<>>]

NewDb(block_size, content) ==
  [exists |-> TRUE, hash_block_size |-> block_size, content |-> content,
   history |-> <<"create">>]

\* the directory the command writes to
Dest == IF cmd_op \in Ops3 THEN cmd_dirs[3] ELSE cmd_dirs[2]

\* the directories the command reads from
Inputs == IF cmd_op \in Ops3 THEN <<cmd_dirs[1], cmd_dirs[2]>> ELSE <<cmd_dirs[1]>>

\* hashdb_manager_t::map_size
map_size(dir) == Len(db[dir].content)

\* hashdb_manager_t::find_count
find_count(dir, key) ==
  Cardinality({i \in 1..Len(db[dir].content) : db[dir].content[i].key = key})

\* hashdb_manager_t::insert(element, changes) on st = [content, changes]
db_insert(st, e) ==
  IF \E i \in 1..Len(st.content) : st.content[i] = e
  THEN [st EXCEPT !.changes.hashes_not_inserted_duplicate_element = @ + 1]
  ELSE [content |-> SelectSeq(st.content, LAMBDA f : ElemLess(f, e)) \o <<e>>
                      \o SelectSeq(st.content, LAMBDA f : ElemLess(e, f)),
        changes |-> [st.changes EXCEPT !.hashes_inserted = @ + 1]]

RECURSIVE db_insert_all(_, _)
db_insert_all(st, es) ==
  IF es = <<>> THEN st ELSE db_insert_all(db_insert(st, Head(es)), Tail(es))

\* the destination after the elements es were given to insert, in order
InsertInto(es) ==
  LET st == db_insert_all([content |-> db[Dest].content, changes |-> cmd_changes], es)
  IN  /\ db' = [db EXCEPT ![Dest].content = st.content]
      /\ cmd_changes' = st.changes
      /\ cmd_submitted' = cmd_submitted \o es

\* require_compatibility(hashdb1, hashdb2) returns without exit(1)
require_compatibility2(d1, d2) ==
  /\ ~(d1 = d2)
  /\ ~(db[d1].hash_block_size # db[d2].hash_block_size)

\* faulty variant of require_compatibility3: hashdb1 and hashdb3 are not
\* compared
require_compatibility3_no_1_3(d1, d2, d3) ==
  /\ ~(d1 = d2 \/ d2 = d3)
  /\ ~(db[d1].hash_block_size # db[d2].hash_block_size)

\* faulty variant of require_compatibility3: hashdb1 and hashdb2 are not
\* compared
require_compatibility3_no_1_2(d1, d2, d3) ==
  /\ ~(d2 = d3 \/ d1 = d3)
  /\ ~(db[d1].hash_block_size # db[d3].hash_block_size)

\* require_compatibility(hashdb1, hashdb2, hashdb3) returns without exit(1)
require_compatibility3(d1, d2, d3) ==
  /\ ~(d1 = d2 \/ d2 = d3 \/ d1 = d3)
  /\ ~(\/ db[d1].hash_block_size # db[d2].hash_block_size
        \/ db[d1].hash_block_size # db[d3].hash_block_size)

CmdInit ==
  /\ cmd_op \in Ops2 \cup Ops3
  /\ cmd_dirs \in IF cmd_op \in Ops3
                  THEN {"A"} \X {"A", "B"} \X Dirs
                  ELSE {"A"} \X {"A", "B"} \X {""}
  /\ cmd_pc = "start"
  /\ db \in [Dirs -> {NoDb} \cup {NewDb(b, c) : b \in BlockSizes, c \in Contents}]
  /\ db["A"].exists /\ db["A"].hash_block_size = 512
  /\ db["B"].exists \/ cmd_op \in Ops2
  /\ db["C"].content = <<>>
  /\ db["C"].exists => cmd_op \in Ops3
  /\ it1 = 1
  /\ it2 = 1
  /\ cmd_changes = [hashes_inserted |-> 0,
                    hashes_not_inserted_mismatched_hash_block_size |-> 0,
                    hashes_not_inserted_invalid_byte_alignment |-> 0,
                    hashes_not_inserted_exceeds_max_duplicates |-> 0,
                    hashes_not_inserted_duplicate_element |-> 0]
  /\ cmd_submitted = <<>>
  /\ cmd_merged = <<>>
  /\ stop_flag = [set |-> FALSE, at |-> 0]

\* what a step of a command leaves alone: the other parts, and the stop
\* flag of its caller, which no command is given
CmdOthers == <<hs_vars, cd_vars, hd_vars, stop_flag, th_vars, ext_vars>>

\* open the inputs for reading; if the destination does not exist, create
\* it with settings from hashdb1; open the destination for writing
CmdOpen ==
  /\ cmd_pc = "start"
  /\ db' = IF db[Dest].exists THEN db
           ELSE [db EXCEPT ![Dest] = NewDb(db[cmd_dirs[1]].hash_block_size, <<>>)]
  /\ cmd_pc' = "check"
  /\ UNCHANGED <<cmd_op, cmd_dirs, it1, it2, cmd_changes, cmd_submitted, cmd_merged>>
  /\ UNCHANGED CmdOthers

\* require_compatibility on the opened managers: exit(1) or go on
CmdRequireCompatibility ==
  /\ cmd_pc = "check"
  /\ cmd_pc' = IF \/ cmd_op \in Ops2
                     /\ require_compatibility2(cmd_dirs[1], cmd_dirs[2])
                  \/ cmd_op \in Ops3
                     /\ require_compatibility3(cmd_dirs[1], cmd_dirs[2], cmd_dirs[3])
               THEN "loop" ELSE "exit"
  /\ UNCHANGED <<cmd_op, cmd_dirs, db, it1, it2, cmd_changes, cmd_submitted, cmd_merged>>
  /\ UNCHANGED CmdOthers

\* the element under an iterator
Elem(dir, it) == db[dir].content[it]

AtEnd(dir, it) == it > Len(db[dir].content)

\* faulty variant of CmdAddStep: the iterator moves on twice a turn
CmdAddStep_skips ==
  /\ cmd_pc = "loop" /\ cmd_op = "add"
  /\ ~AtEnd(cmd_dirs[1], it1)
  /\ InsertInto(<<Elem(cmd_dirs[1], it1)>>)
  /\ it1' = it1 + 2
  /\ UNCHANGED <<cmd_op, cmd_dirs, cmd_pc, it2, cmd_merged>>
  /\ UNCHANGED CmdOthers

\* add: one turn of while (it1 != hashdb_manager1.end())
CmdAddStep ==
  /\ cmd_pc = "loop" /\ cmd_op = "add"
  /\ ~AtEnd(cmd_dirs[1], it1)
  /\ InsertInto(<<Elem(cmd_dirs[1], it1)>>)
  /\ it1' = it1 + 1
  /\ UNCHANGED <<cmd_op, cmd_dirs, cmd_pc, it2, cmd_merged>>
  /\ UNCHANGED CmdOthers

\* faulty variant of it1_first: < in place of <=
it1_first_strict(e1, e2) == e1.key < e2.key

\* add_multiple: it1->key.hexdigest() <= it2->key.hexdigest()
it1_first(e1, e2) == e1.key <= e2.key

\* add_multiple: one turn of the merge loop or of a loop over the rest
CmdAddMultipleStep ==
  /\ cmd_pc = "loop" /\ cmd_op = "add_multiple"
  /\ ~AtEnd(cmd_dirs[1], it1) \/ ~AtEnd(cmd_dirs[2], it2)
  /\ IF /\ ~AtEnd(cmd_dirs[1], it1)
        /\ (AtEnd(cmd_dirs[2], it2)
              \/ it1_first(Elem(cmd_dirs[1], it1), Elem(cmd_dirs[2], it2)))
     THEN /\ InsertInto(<<Elem(cmd_dirs[1], it1)>>)
          /\ it1' = it1 + 1
          /\ it2' = it2
     ELSE /\ InsertInto(<<Elem(cmd_dirs[2], it2)>>)
          /\ it2' = it2 + 1
          /\ it1' = it1
  /\ UNCHANGED <<cmd_op, cmd_dirs, cmd_pc, cmd_merged>>
  /\ UNCHANGED CmdOthers

\* the database intersect iterates over: manager1 unless it is larger
Smaller == IF map_size(cmd_dirs[1]) <= map_size(cmd_dirs[2]) THEN cmd_dirs[1] ELSE cmd_dirs[2]

Larger == IF map_size(cmd_dirs[1]) <= map_size(cmd_dirs[2]) THEN cmd_dirs[2] ELSE cmd_dirs[1]

\* the elements of dir with this key, as find(key) iterates over them
find(dir, key) == SelectSeq(db[dir].content, LAMBDA e : e.key = key)

\* faulty variant of matching_elements: the hashes from larger are left out
matching_elements_smaller_only(key) ==
  SubSeq(db[Smaller].content, it1, it1 + find_count(Smaller, key) - 1)

\* intersect_optimized, there is a match in larger db: the elements given to
\* insert, smaller_count of them from smaller_it on, then those find yields
\* in larger
matching_elements(key) ==
  SubSeq(db[Smaller].content, it1, it1 + find_count(Smaller, key) - 1)
    \o find(Larger, key)

\* intersect_optimized: one turn of while (smaller_it != smaller_hashdb.end())
CmdIntersectStep ==
  /\ cmd_pc = "loop" /\ cmd_op = "intersect"
  /\ ~AtEnd(Smaller, it1)
  /\ LET key == Elem(Smaller, it1).key
         smaller_count == find_count(Smaller, key)
     IN  IF find_count(Larger, key) > 0
         THEN /\ InsertInto(matching_elements(key))
              /\ it1' = it1 + smaller_count
         ELSE /\ it1' = it1 + 1
              /\ UNCHANGED <<db, cmd_changes, cmd_submitted>>
  /\ UNCHANGED <<cmd_op, cmd_dirs, cmd_pc, it2, cmd_merged>>
  /\ UNCHANGED CmdOthers

\* faulty variant of hashdb2_has: the count is taken in hashdb1
hashdb2_has_in_hashdb1(key) == find_count(cmd_dirs[1], key) > 1

\* subtract: hashdb_manager2.find_count(it1->key) > 0
hashdb2_has(key) == find_count(cmd_dirs[2], key) > 0

\* subtract: one turn of while (it1 != hashdb_manager1.end())
CmdSubtractStep ==
  /\ cmd_pc = "loop" /\ cmd_op = "subtract"
  /\ ~AtEnd(cmd_dirs[1], it1)
  /\ IF hashdb2_has(Elem(cmd_dirs[1], it1).key)
     THEN UNCHANGED <<db, cmd_changes, cmd_submitted>>
     ELSE InsertInto(<<Elem(cmd_dirs[1], it1)>>)
  /\ it1' = it1 + 1
  /\ UNCHANGED <<cmd_op, cmd_dirs, cmd_pc, it2, cmd_merged>>
  /\ UNCHANGED CmdOthers

\* faulty variant of count_is_1: a key of any count is kept
count_is_1_or_more(key) == find_count(cmd_dirs[1], key) >= 1

\* deduplicate: hashdb_manager1.find_count(it1->key) == 1
count_is_1(key) == find_count(cmd_dirs[1], key) = 1

\* deduplicate: one turn of while (it1 != hashdb_manager1.end())
CmdDeduplicateStep ==
  /\ cmd_pc = "loop" /\ cmd_op = "deduplicate"
  /\ ~AtEnd(cmd_dirs[1], it1)
  /\ IF count_is_1(Elem(cmd_dirs[1], it1).key)
     THEN InsertInto(<<Elem(cmd_dirs[1], it1)>>)
     ELSE UNCHANGED <<db, cmd_changes, cmd_submitted>>
  /\ it1' = it1 + 1
  /\ UNCHANGED <<cmd_op, cmd_dirs, cmd_pc, it2, cmd_merged>>
  /\ UNCHANGED CmdOthers

\* faulty variant of CmdLog: the logger is closed while elements are left
CmdLog_before_end ==
  /\ cmd_pc = "loop"
  /\ db' = [db EXCEPT ![Dest].history = Append(@, cmd_op)]
  /\ cmd_pc' = "merge"
  /\ UNCHANGED <<cmd_op, cmd_dirs, it1, it2, cmd_changes, cmd_submitted, cmd_merged>>
  /\ UNCHANGED CmdOthers

\* the loops are over: close the tracker and the logger, which writes the
\* command and its changes to the log of the destination
CmdLog ==
  /\ cmd_pc = "loop"
  /\ IF cmd_op = "intersect" THEN AtEnd(Smaller, it1)
     ELSE IF cmd_op = "add_multiple"
          THEN AtEnd(cmd_dirs[1], it1) /\ AtEnd(cmd_dirs[2], it2)
          ELSE AtEnd(cmd_dirs[1], it1)
  /\ db' = [db EXCEPT ![Dest].history = Append(@, cmd_op)]
  /\ cmd_pc' = "merge"
  /\ UNCHANGED <<cmd_op, cmd_dirs, it1, it2, cmd_changes, cmd_submitted, cmd_merged>>
  /\ UNCHANGED CmdOthers

RECURSIVE histories(_)
histories(dirs) ==
  IF dirs = <<>> THEN <<>> ELSE db[Head(dirs)].history \o histories(Tail(dirs))

\* history_manager_t::merge_history_to_history for each input, in order
CmdMergeHistory ==
  /\ cmd_pc = "merge"
  /\ db' = [db EXCEPT ![Dest].history = @ \o histories(Inputs)]
  /\ cmd_merged' = cmd_merged \o Inputs
  /\ cmd_pc' = "done"
  /\ UNCHANGED <<cmd_op, cmd_dirs, it1, it2, cmd_changes, cmd_submitted>>
  /\ UNCHANGED CmdOthers

\* the caller of a running command sets its stop flag; the commands take
\* directory names only, so no step of a command reads the flag
CallerSetsStop ==
  /\ cmd_pc \in {"start", "check", "loop"}
  /\ ~stop_flag.set
  /\ stop_flag' = [set |-> TRUE, at |-> Len(cmd_submitted)]
  /\ UNCHANGED <<cmd_vars, hs_vars, cd_vars, hd_vars, th_vars, ext_vars>>

\* no command runs
CmdIdle ==
  /\ cmd_op = "none"
  /\ cmd_dirs = <<>>
  /\ cmd_pc = "idle"
  /\ db = <<>>
  /\ it1 = 1
  /\ it2 = 1
  /\ cmd_changes = <<>>
  /\ cmd_submitted = <<>>
  /\ cmd_merged = <<>>
  /\ stop_flag = [set |-> FALSE, at |-> 0]

-----------------------------------------------------------------------------
(* Part 5: threads in insert and find on one hash store *)

Threads == {"t1", "t2"}

\* the block hashes the threads insert and look for: two share their first
\* byte, two their last
ThHashes == {<<16, 16>>, <<16, 31>>, <<31, 31>>}

\* the configured hash prefix bits of a store shared by threads
ThPrefixBits == {4, 8}

\* every suffix string of the hashes of the threads
ThSuffixes == {hash_pair(h)[2] : h \in ThHashes}

\* a thread that is in no call; expect: the insert of the hash it looks for
\* had returned when it called find
NotCalled ==
  [pc |-> "idle", op |-> "none", hash |-> <<>>, encoding |-> <<>>,
   expect |-> FALSE, raced |-> FALSE, result |-> FALSE]

ThInit ==
  /\ prefix_bits \in ThPrefixBits
  /\ suffix_bytes = 1
  /\ hash_store = <<>>
  /\ suffix_strings = {}
  /\ lmdb_changes = [hash_inserted |-> 0, hash_already_present |-> 0]
  /\ hs_last = [op |-> "none"]
  /\ hs_inserted = {}
  /\ hs_calls = 0
  /\ th_state = [t \in Threads |-> NotCalled]
  /\ M = "none"

\* what a step of a thread in the hash store leaves alone
ThOthers == <<prefix_bits, suffix_bytes, hs_last, cd_vars, hd_vars, cmd_vars, stop_flag,
              ext_vars>>

\* no thread has brought the process down
Running ==
  /\ hs_status = "open"
  /\ \A t \in Threads : th_state[t].pc # "fault"

\* t is between its write of *suffix_strings and its last use of it
InScratch(t) == th_state[t].pc \in {"find_lookup", "insert_lookup", "insert_put"}

\* the threads after t has written *suffix_strings and gone to pc: a
\* thread that is using the set has had it changed under it, and the write
\* of t was unordered with the accesses of that thread
scratch_written(t, pc) ==
  [u \in Threads |->
     IF u = t
     THEN [th_state[t] EXCEPT !.pc = pc,
                              !.raced = @ \/ \E v \in Threads \ {t} : InScratch(v)]
     ELSE IF InScratch(u) THEN [th_state[u] EXCEPT !.raced = TRUE]
     ELSE th_state[u]]

\* the threads after the call of t has returned result
returned(state, t, result) ==
  [state EXCEPT ![t].pc = "returned", ![t].result = result,
                ![t].encoding = <<>>, ![t].raced = FALSE]

\* the process is brought down by a use of the set after a data race
faults(t) ==
  /\ th_state[t].raced
  /\ th_state' = [th_state EXCEPT ![t].pc = "fault"]
  /\ UNCHANGED <<hash_store, suffix_strings, lmdb_changes, hs_inserted, M>>

\* a thread calls find(binary_hash): binary_hash is not empty
ThCallFind(t, binary_hash) ==
  /\ Running
  /\ th_state[t].pc \in {"idle", "returned"}
  /\ th_state' = [th_state EXCEPT ![t] =
                    [NotCalled EXCEPT !.pc = "find_get", !.op = "find",
                                      !.hash = binary_hash,
                                      !.expect = (binary_hash \in hs_inserted)]]
  /\ UNCHANGED <<hash_store, suffix_strings, lmdb_changes, hs_inserted, hs_calls, M>>
  /\ UNCHANGED ThOthers

\* find: context.open(), hash_pair, mdb_cursor_get(MDB_SET_KEY)
ThFindGet(t) ==
  LET pair == hash_pair(th_state[t].hash)
  IN  /\ Running
      /\ th_state[t].pc = "find_get"
      /\ th_state' =
           IF pair[1] \notin DOMAIN hash_store
           THEN returned(th_state, t, FALSE)
           ELSE [th_state EXCEPT ![t].pc = "find_decode",
                                 ![t].encoding = hash_store[pair[1]]]
      /\ UNCHANGED <<hash_store, suffix_strings, lmdb_changes, hs_inserted, hs_calls, M>>
      /\ UNCHANGED ThOthers

\* find: decode_data(encoding, *suffix_strings), under no lock
ThFindDecode(t) ==
  /\ Running
  /\ th_state[t].pc = "find_decode"
  /\ suffix_strings' = decode_data(th_state[t].encoding)
  /\ th_state' = scratch_written(t, "find_lookup")
  /\ UNCHANGED <<hash_store, lmdb_changes, hs_inserted, hs_calls, M>>
  /\ UNCHANGED ThOthers

\* find: suffix_strings->find(pair.second), context.close(), return; the
\* behaviour is undefined after a data race on the set
ThFindLookup(t) ==
  LET pair == hash_pair(th_state[t].hash)
  IN  /\ Running
      /\ th_state[t].pc = "find_lookup"
      /\ \/ /\ \E result \in IF th_state[t].raced THEN BOOLEAN
                             ELSE {pair[2] \in suffix_strings} :
                   th_state' = returned(th_state, t, result)
            /\ UNCHANGED <<hash_store, suffix_strings, lmdb_changes, hs_inserted, M>>
         \/ faults(t)
      /\ UNCHANGED hs_calls
      /\ UNCHANGED ThOthers

\* a thread calls insert(binary_hash, changes): binary_hash is not empty
ThCallInsert(t, binary_hash) ==
  /\ Running
  /\ th_state[t].pc \in {"idle", "returned"}
  /\ hs_calls < MaxCalls
  /\ hs_calls' = hs_calls + 1
  /\ th_state' = [th_state EXCEPT ![t] =
                    [NotCalled EXCEPT !.pc = "insert_lock", !.op = "insert",
                                      !.hash = binary_hash]]
  /\ UNCHANGED <<hash_store, suffix_strings, lmdb_changes, hs_inserted, M>>
  /\ UNCHANGED ThOthers

\* faulty variant of ThInsertLock: the lock is taken while it is held
ThInsertLock_not_exclusive(t) ==
  /\ Running
  /\ th_state[t].pc = "insert_lock"
  /\ M' = t
  /\ th_state' = [th_state EXCEPT ![t].pc = "insert_get"]
  /\ UNCHANGED <<hash_store, suffix_strings, lmdb_changes, hs_inserted, hs_calls>>
  /\ UNCHANGED ThOthers

\* insert: MUTEX_LOCK(&M)
ThInsertLock(t) ==
  /\ Running
  /\ th_state[t].pc = "insert_lock"
  /\ M = "none"
  /\ M' = t
  /\ th_state' = [th_state EXCEPT ![t].pc = "insert_get"]
  /\ UNCHANGED <<hash_store, suffix_strings, lmdb_changes, hs_inserted, hs_calls>>
  /\ UNCHANGED ThOthers

\* insert: context.open(), hash_pair, mdb_cursor_get(MDB_SET_KEY)
ThInsertGet(t) ==
  LET pair == hash_pair(th_state[t].hash)
  IN  /\ Running
      /\ th_state[t].pc = "insert_get"
      /\ th_state' =
           IF pair[1] \notin DOMAIN hash_store
           THEN [th_state EXCEPT ![t].pc = "insert_new"]
           ELSE [th_state EXCEPT ![t].pc = "insert_decode",
                                 ![t].encoding = hash_store[pair[1]]]
      /\ UNCHANGED <<hash_store, suffix_strings, lmdb_changes, hs_inserted, hs_calls, M>>
      /\ UNCHANGED ThOthers

\* insert, prefix and suffix are new: suffix_strings->clear() and
\* suffix_strings->insert(pair.second)
ThInsertNew(t) ==
  /\ Running
  /\ th_state[t].pc = "insert_new"
  /\ suffix_strings' = {hash_pair(th_state[t].hash)[2]}
  /\ th_state' = scratch_written(t, "insert_put")
  /\ UNCHANGED <<hash_store, lmdb_changes, hs_inserted, hs_calls, M>>
  /\ UNCHANGED ThOthers

\* insert, prefix already exists: decode_data(encoding, *suffix_strings)
ThInsertDecode(t) ==
  /\ Running
  /\ th_state[t].pc = "insert_decode"
  /\ suffix_strings' = decode_data(th_state[t].encoding)
  /\ th_state' = scratch_written(t, "insert_lookup")
  /\ UNCHANGED <<hash_store, lmdb_changes, hs_inserted, hs_calls, M>>
  /\ UNCHANGED ThOthers

\* the call of insert returns: ++changes counter, MUTEX_UNLOCK(&M), return
insert_returns(t, counter) ==
  /\ lmdb_changes' = [lmdb_changes EXCEPT ![counter] = @ + 1]
  /\ M' = "none"
  /\ hs_inserted' = hs_inserted \cup {th_state[t].hash}
  /\ th_state' = returned(th_state, t, FALSE)

\* insert: suffix_strings->find(pair.second); the suffix already exists,
\* or it is added to the set; the behaviour is undefined after a data race
\* on the set
ThInsertLookup(t) ==
  LET pair == hash_pair(th_state[t].hash)
  IN  /\ Running
      /\ th_state[t].pc = "insert_lookup"
      /\ \/ \E exists \in IF th_state[t].raced THEN BOOLEAN
                          ELSE {pair[2] \in suffix_strings} :
              IF exists
              THEN /\ insert_returns(t, "hash_already_present")
                   /\ UNCHANGED <<hash_store, suffix_strings>>
              ELSE /\ suffix_strings' = write_back(suffix_strings, pair[2])
                   /\ th_state' = scratch_written(t, "insert_put")
                   /\ UNCHANGED <<hash_store, lmdb_changes, hs_inserted, M>>
         \/ faults(t)
      /\ UNCHANGED hs_calls
      /\ UNCHANGED ThOthers

\* insert: encode_data(*suffix_strings), mdb_put, context.close(), return;
\* the set that is encoded is undefined after a data race on it
ThInsertPut(t) ==
  LET pair == hash_pair(th_state[t].hash)
  IN  /\ Running
      /\ th_state[t].pc = "insert_put"
      /\ \/ /\ \E strings \in IF th_state[t].raced THEN SUBSET ThSuffixes
                              ELSE {suffix_strings} :
                   hash_store' = hs_put(pair[1], encode_data(strings))
            /\ insert_returns(t, "hash_inserted")
            /\ UNCHANGED suffix_strings
         \/ faults(t)
      /\ UNCHANGED hs_calls
      /\ UNCHANGED ThOthers

\* a step of a thread inside insert
ThInsertStep(t) ==
  \/ ThInsertLock(t)
  \/ ThInsertGet(t)
  \/ ThInsertNew(t)
  \/ ThInsertDecode(t)
  \/ ThInsertLookup(t)
  \/ ThInsertPut(t)

\* no thread is in the hash store
ThIdle ==
  /\ th_state = <<>>
  /\ M = "none"

-----------------------------------------------------------------------------
(* Part 6: JSON import (import_json_t)                                     *)
(*                                                                         *)
(* A JSON value is a record with its type and its content: s for a string, *)
(* n for an unsigned integer, a for the elements of an array, m for the    *)
(* members of an object (a record holding the members that are present).   *)

MaxLines == 3          \* lines of the stream given to read

Str(s) == [type |-> "string", s |-> s]
Uint(n) == [type |-> "uint", n |-> n]
Arr(a) == [type |-> "array", a |-> a]
Obj(m) == [type |-> "object", m |-> m]
\* a value that is no string, no unsigned integer, no array and no object
Other == [type |-> "other"]

\* rapidjson::Value: HasMember, IsString, IsUint64, IsArray, IsObject
HasMember(v, name) == name \in DOMAIN v.m
IsString(v) == v.type = "string"
IsUint64(v) == v.type = "uint"
IsArray(v) == v.type = "array"
IsObject(v) == v.type = "object"

\* a line of the stream: its first character ("" when it has none), its
\* size, whether document.Parse fails on it, and the document parsed
TextLine(first, size) ==
  [first |-> first, size |-> size, parse_error |-> TRUE, document |-> Other]
JsonLine(first, size, document) ==
  [first |-> first, size |-> size, parse_error |-> FALSE, document |-> document]

NameRF == Obj([repository_name |-> Str("r"), filename |-> Str("f")])
NameRG == Obj([repository_name |-> Str("r"), filename |-> Str("g")])

\* the lines of the model
Lines == <<
  \* 1: the empty line
  TextLine("", 0),
  \* 2: # comment
  TextLine("#", 9),
  \* 3: not JSON
  TextLine("x", 7),
  \* 4: [1]
  JsonLine("[", 3, Arr(<<Uint(1)>>)),
  \* 5: {"x":1}
  JsonLine("{", 7, Obj([x |-> Uint(1)])),
  \* 6: {"file_hash":"10","filesize":8,
  \*     "names":[{"repository_name":"r","filename":"f"}]}
  JsonLine("{", 80, Obj([file_hash |-> Str("10"), filesize |-> Uint(8),
                         names |-> Arr(<<NameRF>>)])),
  \* 7: {"file_hash":"1f","filesize":8,"file_type":"exe",
  \*     "nonprobative_count":4,"names":[{..."f"},{..."g"}]}
  JsonLine("{", 160, Obj([file_hash |-> Str("1f"), filesize |-> Uint(8),
                          file_type |-> Str("exe"),
                          nonprobative_count |-> Uint(4),
                          names |-> Arr(<<NameRF, NameRG>>)])),
  \* 8: {"file_hash":"10","filesize":8}
  JsonLine("{", 31, Obj([file_hash |-> Str("10"), filesize |-> Uint(8)])),
  \* 9: {"file_hash":"10","filesize":"8","names":[{...}]}
  JsonLine("{", 82, Obj([file_hash |-> Str("10"), filesize |-> Str("8"),
                         names |-> Arr(<<NameRF>>)])),
  \* 10: {"file_hash":"10","filesize":8,
  \*      "names":[{..."f"},{"repository_name":"r"}]}
  JsonLine("{", 106, Obj([file_hash |-> Str("10"), filesize |-> Uint(8),
                          names |-> Arr(<<NameRF,
                                          Obj([repository_name |-> Str("r")])>>)])),
  \* 11: {"file_hash":1,"filesize":8,"names":[{...}]}
  JsonLine("{", 77, Obj([file_hash |-> Uint(1), filesize |-> Uint(8),
                         names |-> Arr(<<NameRF>>)])),
  \* 12: {"block_hash":"1f","source_offset_pairs":["10",512,"1f",1024]}
  JsonLine("{", 66, Obj([block_hash |-> Str("1f"),
                         source_offset_pairs |->
                           Arr(<<Str("10"), Uint(512), Str("1f"), Uint(1024)>>)])),
  \* 13: {"block_hash":"10","entropy":8,"block_label":"W",
  \*      "source_offset_pairs":["10",512]}
  JsonLine("{", 82, Obj([block_hash |-> Str("10"), entropy |-> Uint(8),
                         block_label |-> Str("W"),
                         source_offset_pairs |-> Arr(<<Str("10"), Uint(512)>>)])),
  \* 14: {"block_hash":"1f","source_offset_pairs":["10",512,7,1024]}
  JsonLine("{", 63, Obj([block_hash |-> Str("1f"),
                         source_offset_pairs |->
                           Arr(<<Str("10"), Uint(512), Uint(7), Uint(1024)>>)])),
  \* 15: {"block_hash":"1f","source_offset_pairs":["10",512,"1f"]}
  JsonLine("{", 61, Obj([block_hash |-> Str("1f"),
                         source_offset_pairs |->
                           Arr(<<Str("10"), Uint(512), Str("1f")>>)])),
  \* 16: {"block_hash":"1f"}
  JsonLine("{", 19, Obj([block_hash |-> Str("1f")])),
  \* 17: {"block_hash":"1f","source_offset_pairs":[]}
  JsonLine("{", 44, Obj([block_hash |-> Str("1f"),
                         source_offset_pairs |-> Arr(<<>>)])),
  \* 18: {"block_hash":"1f","entropy":"x","block_label":2,
  \*      "source_offset_pairs":["1f",0]}
  JsonLine("{", 78, Obj([block_hash |-> Str("1f"), entropy |-> Str("x"),
                         block_label |-> Uint(2),
                         source_offset_pairs |-> Arr(<<Str("1f"), Uint(0)>>)])),
  \* 19: {"file_hash":"10","filesize":8,"names":[],"block_hash":"1f",
  \*      "source_offset_pairs":["10",512]}
  JsonLine("{", 95, Obj([file_hash |-> Str("10"), filesize |-> Uint(8),
                         names |-> Arr(<<>>), block_hash |-> Str("1f"),
                         source_offset_pairs |-> Arr(<<Str("10"), Uint(512)>>)])),
  \* 20: {"block_hash":"1f","source_offset_pairs":["10","512"]}
  JsonLine("{", 54, Obj([block_hash |-> Str("1f"),
                         source_offset_pairs |-> Arr(<<Str("10"), Str("512")>>)]))
>>

LineIds == 1..Len(Lines)

\* hex_to_bin on the hexadecimal strings of the model: two digits give one
\* byte, in either case; anything else gives the empty string
hex_to_bin(hex) ==
  CASE hex = "10" -> <<16>>
    [] hex = "1f" -> <<31>>
    [] hex = "1F" -> <<31>>
    [] OTHER -> <<>>

\* the calls made on manager, as records
insert_source_data(file_binary_hash, filesize, file_type, nonprobative_count) ==
  [fn |-> "insert_source_data", file_binary_hash |-> file_binary_hash,
   filesize |-> filesize, file_type |-> file_type,
   nonprobative_count |-> nonprobative_count]

insert_source_name(file_binary_hash, repository_name, filename) ==
  [fn |-> "insert_source_name", file_binary_hash |-> file_binary_hash,
   repository_name |-> repository_name, filename |-> filename]

insert_hash(binary_hash, file_binary_hash, file_offset, entropy, block_label) ==
  [fn |-> "insert_hash", binary_hash |-> binary_hash,
   file_binary_hash |-> file_binary_hash, file_offset |-> file_offset,
   entropy |-> entropy, block_label |-> block_label]

\* what reading a record does: the manager calls made, in order, and the
\* fields given to report_invalid_line
Done(calls, fields) == [calls |-> calls, fields |-> fields]

\* the for loop over names of read_source_data, from index i (0-based)
RECURSIVE read_names(_, _, _, _)
read_names(json_names, i, file_binary_hash, calls) ==
  IF ~(i < Len(json_names)) THEN Done(calls, <<>>)
  ELSE LET name == json_names[i + 1]
       IN  IF ~HasMember(name, "repository_name")
              \/ ~IsString(name.m.repository_name)
           THEN Done(calls, <<"source data repository_name">>)
           ELSE IF ~HasMember(name, "filename") \/ ~IsString(name.m.filename)
           THEN Done(calls, <<"source data filename">>)
           ELSE read_names(json_names, i + 1, file_binary_hash,
                           Append(calls,
                                  insert_source_name(file_binary_hash,
                                                     name.m.repository_name.s,
                                                     name.m.filename.s)))

\* import_json_t::read_source_data
read_source_data(document) ==
  IF ~HasMember(document, "file_hash") \/ ~IsString(document.m.file_hash)
  THEN Done(<<>>, <<"source data file_hash">>)
  ELSE IF ~HasMember(document, "filesize") \/ ~IsUint64(document.m.filesize)
  THEN Done(<<>>, <<"source data filesize">>)
  ELSE
    LET file_binary_hash == hex_to_bin(document.m.file_hash.s)
        filesize == document.m.filesize.n
        file_type == IF HasMember(document, "file_type")
                        /\ IsString(document.m.file_type)
                     THEN document.m.file_type.s ELSE ""
        nonprobative_count == IF HasMember(document, "nonprobative_count")
                                 /\ IsUint64(document.m.nonprobative_count)
                              THEN document.m.nonprobative_count.n ELSE 0
        \* add the source data
        added == <<insert_source_data(file_binary_hash, filesize, file_type,
                                      nonprobative_count)>>
    IN  IF ~HasMember(document, "names") \/ ~IsArray(document.m.names)
        THEN Done(added, <<"source data names">>)
        ELSE read_names(document.m.names.a, 0, file_binary_hash, added)

\* faulty variant of read_pairs: only the first pair is read
read_pairs_first_only(json_pairs, i, binary_hash, entropy, block_label, calls) ==
  IF Len(json_pairs) >= 2 /\ IsString(json_pairs[1]) /\ IsUint64(json_pairs[2])
  THEN Done(<<insert_hash(binary_hash, hex_to_bin(json_pairs[1].s),
                          json_pairs[2].n, entropy, block_label)>>, <<>>)
  ELSE Done(<<>>, <<>>)

\* the for loop over source_offset_pairs of read_block_hash_data, from
\* index i (0-based): for (i = 0; i+1 < json_pairs.Size(); i += 2)
RECURSIVE read_pairs(_, _, _, _, _, _)
read_pairs(json_pairs, i, binary_hash, entropy, block_label, calls) ==
  IF ~(i + 1 < Len(json_pairs)) THEN Done(calls, <<>>)
  ELSE IF ~IsString(json_pairs[i + 1])
  THEN Done(calls, <<"block hash data source_offset_pair source hash">>)
  ELSE IF ~IsUint64(json_pairs[i + 2])
  THEN Done(calls, <<"block hash data source_offset_pair file offset">>)
  ELSE read_pairs(json_pairs, i + 2, binary_hash, entropy, block_label,
                  Append(calls,
                         insert_hash(binary_hash,
                                     hex_to_bin(json_pairs[i + 1].s),
                                     json_pairs[i + 2].n,
                                     entropy, block_label)))

\* import_json_t::read_block_hash_data
read_block_hash_data(document) ==
  IF ~HasMember(document, "block_hash") \/ ~IsString(document.m.block_hash)
  THEN Done(<<>>, <<"block hash data block_hash">>)
  ELSE
    LET binary_hash == hex_to_bin(document.m.block_hash.s)
        entropy == IF HasMember(document, "entropy")
                      /\ IsUint64(document.m.entropy)
                   THEN document.m.entropy.n ELSE 0
        block_label == IF HasMember(document, "block_label")
                          /\ IsString(document.m.block_label)
                       THEN document.m.block_label.s ELSE ""
    IN  IF ~HasMember(document, "source_offset_pairs")
           \/ ~IsArray(document.m.source_offset_pairs)
        THEN Done(<<>>, <<"block hash data source_offset_pairs">>)
        ELSE read_pairs(document.m.source_offset_pairs.a, 0, binary_hash,
                        entropy, block_label, <<>>)

\* the body of the while loop of read_lines, after ++line_number
read_line(line) ==
  IF line.first = "#" THEN Done(<<>>, <<>>)
  ELSE IF line.size = 0 THEN Done(<<>>, <<>>)
  ELSE IF line.parse_error \/ ~IsObject(line.document)
  THEN Done(<<>>, <<"DOM parse error">>)
  ELSE IF HasMember(line.document, "file_hash")
  THEN read_source_data(line.document)
  ELSE IF HasMember(line.document, "block_hash")
  THEN read_block_hash_data(line.document)
  ELSE Done(<<>>, <<"no file_hash or block_hash">>)

\* import_json_t::report_invalid_line, once per field
report_invalid_line(number, fields) ==
  [k \in 1..Len(fields) |-> [line_number |-> number, field |-> fields[k]]]

\* import_json_t::read: the reader is constructed on a stream
IjInit ==
  /\ in_lines \in SeqsUpTo(LineIds, MaxLines)
  /\ in_pos = 0
  /\ line_number = 0
  /\ manager_calls = <<>>
  /\ invalid_lines = <<>>

IjOthers == <<hs_vars, cd_vars, hd_vars, cmd_vars, stop_flag, th_vars,
              lc_vars, hds_vars>>

\* faulty variant of IjReadLine: a skipped line is not counted
IjReadLine_skipped_uncounted ==
  /\ in_pos < Len(in_lines)
  /\ LET line == Lines[in_lines[in_pos + 1]]
         number == IF line.first = "#" \/ line.size = 0
                   THEN line_number ELSE line_number + 1
         done == read_line(line)
     IN  /\ in_pos' = in_pos + 1
         /\ line_number' = number
         /\ manager_calls' = manager_calls \o done.calls
         /\ invalid_lines' = invalid_lines \o report_invalid_line(number, done.fields)
  /\ UNCHANGED in_lines
  /\ UNCHANGED IjOthers

\* one turn of the while loop of import_json_t::read_lines
IjReadLine ==
  /\ in_pos < Len(in_lines)
  /\ LET line == Lines[in_lines[in_pos + 1]]
         done == read_line(line)
     IN  /\ in_pos' = in_pos + 1
         /\ line_number' = line_number + 1
         /\ manager_calls' = manager_calls \o done.calls
         /\ invalid_lines' = invalid_lines
                               \o report_invalid_line(line_number + 1, done.fields)
  /\ UNCHANGED in_lines
  /\ UNCHANGED IjOthers

\* no import runs
IjIdle ==
  /\ in_lines = <<>>
  /\ in_pos = 0
  /\ line_number = 0
  /\ manager_calls = <<>>
  /\ invalid_lines = <<>>

-----------------------------------------------------------------------------
(* Part 7: the life cycle of the hash store: its constructor, the fatal    *)
(* errors of insert and find, the buffer of encode_data                    *)

\* the hash prefix bits given to the constructor, as <<high half, low
\* half>>: none, a masked and a whole last byte, and the largest values of
\* a uint32_t
LcPrefixBits == {<<0, 0>>, <<0, 1>>, <<0, 8>>, <<0, 9>>,
                 <<Half - 1, Half - 8>>, <<Half - 1, Half - 7>>,
                 <<Half - 1, Half - 1>>}

\* the hash suffix bytes given to the constructor: up to the bytes that
\* encode_data reserves per string
LcSuffixBytes == {0, 1, BytesPerString - 1, BytesPerString}

\* block hashes of one byte more than encode_data reserves per string
LongHashes == {[i \in 1..(BytesPerString + 1) |-> b] : b \in ByteVals}

\* the block hashes given to a constructed store
LcHashes == {<<16>>, <<16, 31>>} \cup LongHashes

\* no hash store object yet
LcInit ==
  /\ hs_status = "none"
  /\ prefix_bits = 0
  /\ prefix_bits_hi = 0
  /\ suffix_bytes = 0
  /\ hash_store = <<>>
  /\ suffix_strings = {}
  /\ lmdb_changes = [hash_inserted |-> 0, hash_already_present |-> 0]
  /\ hs_last = [op |-> "none"]
  /\ hs_inserted = {}
  /\ hs_calls = 0

LcOthers == <<cd_vars, hd_vars, cmd_vars, stop_flag, th_vars, ij_vars, hds_vars>>

\* faulty variant of valid_configuration: every configuration is accepted
valid_configuration_any(bytes) == TRUE

\* the constructor's check of its parameters: prefix_bytes == 0 is invalid
valid_configuration(bytes) == bytes # 0

\* lmdb_hash_manager_t::lmdb_hash_manager_t
LcConstruct(p_hash_prefix_bits, p_hash_suffix_bytes) ==
  /\ hs_status = "none"
  /\ prefix_bits_hi' = p_hash_prefix_bits[1]
  /\ prefix_bits' = p_hash_prefix_bits[2]
  /\ suffix_bytes' = p_hash_suffix_bytes
  /\ hs_status' = IF valid_configuration(prefix_bytes')
                  THEN "open" ELSE "abort"
  /\ UNCHANGED <<hash_store, suffix_strings, lmdb_changes, hs_last,
                 hs_inserted, hs_calls>>
  /\ UNCHANGED LcOthers

\* the set insert(binary_hash) gives to encode_data, {} when it gives none
encoded_by_insert(binary_hash) ==
  LET pair == hash_pair(binary_hash)
  IN  IF pair[1] \notin DOMAIN hash_store THEN {pair[2]}
      ELSE IF pair[2] \in decode_data(hash_store[pair[1]]) THEN {}
      ELSE write_back(decode_data(hash_store[pair[1]]), pair[2])

\* insert on a constructed store.  When encode_data writes past
\* uint8_t encoding[max_size] the behaviour is undefined: the value stored
\* is the encoding or the store is left as it was, and the object is not
\* used any further
LcInsert(binary_hash) ==
  /\ hs_status = "open"
  /\ IF encode_overflows(encoded_by_insert(binary_hash))
     THEN /\ hs_calls < MaxCalls
          /\ hs_calls' = hs_calls + 1
          /\ hs_status' = "overflow"
          /\ suffix_strings' = encoded_by_insert(binary_hash)
          /\ hash_store' \in {hash_store,
                              hs_put(hash_pair(binary_hash)[1],
                                     encode_data(encoded_by_insert(binary_hash)))}
          /\ hs_last' = [op |-> "insert"]
          /\ UNCHANGED <<prefix_bits, prefix_bits_hi, suffix_bytes, lmdb_changes,
                         hs_inserted>>
          /\ UNCHANGED LcOthers
     ELSE HsInsert(binary_hash)

\* find on a constructed store
LcFind(binary_hash) ==
  /\ hs_status = "open"
  /\ HsFind(binary_hash)

\* the hash store object of the other parts is constructed
LcIdle ==
  /\ hs_status = "open"
  /\ prefix_bits_hi = 0

\* faulty variant of ThCallEmpty: the call goes on with the empty hash
ThCallEmpty_goes_on(t, op) ==
  /\ Running
  /\ th_state[t].pc \in {"idle", "returned"}
  /\ th_state' = [th_state EXCEPT ![t] =
                    [NotCalled EXCEPT !.pc = IF op = "insert" THEN "insert_lock"
                                             ELSE "find_get",
                                      !.op = op]]
  /\ UNCHANGED <<hs_vars, M, lc_vars>>
  /\ UNCHANGED <<cd_vars, hd_vars, cmd_vars, stop_flag, ij_vars, hds_vars>>

\* a thread calls insert or find with an empty binary_hash: "empty key",
\* assert(0), before MUTEX_LOCK and before any access to the store
ThCallEmpty(t, op) ==
  /\ Running
  /\ th_state[t].pc \in {"idle", "returned"}
  /\ th_state' = [th_state EXCEPT ![t] =
                    [NotCalled EXCEPT !.pc = "abort", !.op = op]]
  /\ hs_status' = "abort"
  /\ UNCHANGED <<hs_vars, M, prefix_bits_hi>>
  /\ UNCHANGED <<cd_vars, hd_vars, cmd_vars, stop_flag, ij_vars, hds_vars>>

-----------------------------------------------------------------------------
(* Part 8: the hash-data insert by steps, with a scanner that reads the    *)
(* bloom filter and the store between the steps                            *)

\* no insert is in progress
NoCall == [pc |-> "idle", source_id |-> 0, list |-> <<>>]

\* no lookup was made
NoScan == [op |-> "none", hash |-> <<>>, committed |-> FALSE,
           possibly_present |-> FALSE, found |-> FALSE]

HdsInit ==
  /\ HdInit
  /\ hd_call = NoCall
  /\ hd_scan = NoScan

HdsOthers == <<hs_vars, cd_vars, cmd_vars, stop_flag, th_vars, ij_vars, lc_vars>>

\* the entry the loop is at
entry == Head(hd_call.list)

\* the loop goes on with the next entry
next_entry == [hd_call EXCEPT !.pc = "entry", !.list = Tail(@)]

\* a writer calls insert(source_id, hash_data_list, changes)
HdsCall(source_id, hash_data_list) ==
  /\ hd_call.pc = "idle"
  /\ hash_data_list # <<>>
  /\ Len(hd_log) + Len(hash_data_list) <= MaxEntries
  /\ hd_call' = [pc |-> "entry", source_id |-> source_id, list |-> hash_data_list]
  /\ hd_log' = hd_log \o [i \in 1..Len(hash_data_list) |->
                            [source_id |-> source_id,
                             binary_hash |-> hash_data_list[i].binary_hash,
                             file_offset |-> hash_data_list[i].file_offset]]
  /\ UNCHANGED <<sector_size, hash_truncation, hash_data_store, bloom,
                 hashdb_changes, hd_scan>>
  /\ UNCHANGED HdsOthers

\* insert: the entry is not aligned, ++hashes_not_inserted_..., continue
HdsMisaligned ==
  /\ hd_call.pc = "entry"
  /\ hd_call.list # <<>>
  /\ ~is_aligned(entry.file_offset)
  /\ hashdb_changes' =
       [hashdb_changes EXCEPT !.hashes_not_inserted_invalid_sector_size = @ + 1]
  /\ hd_call' = next_entry
  /\ UNCHANGED <<sector_size, hash_truncation, hash_data_store, bloom,
                 hd_log, hd_scan>>
  /\ UNCHANGED HdsOthers

\* insert: the pair exists, ++hashes_not_inserted_duplicate_element,
\* context.close(), continue
HdsDuplicate ==
  /\ hd_call.pc = "entry"
  /\ hd_call.list # <<>>
  /\ is_aligned(entry.file_offset)
  /\ has_pair(hash_data_store, hd_key(entry.binary_hash),
              entry_data(hd_call.source_id, entry.file_offset))
  /\ hashdb_changes' =
       [hashdb_changes EXCEPT !.hashes_not_inserted_duplicate_element = @ + 1]
  /\ hd_call' = next_entry
  /\ UNCHANGED <<sector_size, hash_truncation, hash_data_store, bloom,
                 hd_log, hd_scan>>
  /\ UNCHANGED HdsOthers

\* insert: mdb_put, ++hashes_inserted, context.close(): the transaction is
\* committed and its entry is in the store for every reader
HdsPut ==
  /\ hd_call.pc = "entry"
  /\ hd_call.list # <<>>
  /\ is_aligned(entry.file_offset)
  /\ ~has_pair(hash_data_store, hd_key(entry.binary_hash),
               entry_data(hd_call.source_id, entry.file_offset))
  /\ hash_data_store' = hd_put(hash_data_store, hd_key(entry.binary_hash),
                               entry_data(hd_call.source_id, entry.file_offset))
  /\ hashdb_changes' = [hashdb_changes EXCEPT !.hashes_inserted = @ + 1]
  /\ hd_call' = [hd_call EXCEPT !.pc = "bloom"]
  /\ UNCHANGED <<sector_size, hash_truncation, bloom, hd_log, hd_scan>>
  /\ UNCHANGED HdsOthers

\* insert: bloom_filter_manager.add_hash_value(it->binary_hash), next turn
HdsBloomAdd ==
  /\ hd_call.pc = "bloom"
  /\ bloom' = bloom_after_insert(bloom, entry.binary_hash)
  /\ hd_call' = next_entry
  /\ UNCHANGED <<sector_size, hash_truncation, hash_data_store,
                 hashdb_changes, hd_log, hd_scan>>
  /\ UNCHANGED HdsOthers

\* insert: the list is at its end, the call returns
HdsReturn ==
  /\ hd_call.pc = "entry"
  /\ hd_call.list = <<>>
  /\ hd_call' = NoCall
  /\ UNCHANGED <<hd_vars, hd_scan>>
  /\ UNCHANGED HdsOthers

\* a scanner looks for binary_hash: probably_contains first, and the store
\* only when the filter reports the hash possibly present
HdsScan(binary_hash) ==
  /\ hd_scan' = [op |-> "scan", hash |-> binary_hash,
                 committed |-> hd_key(binary_hash) \in DOMAIN hash_data_store,
                 possibly_present |-> probably_contains(bloom, binary_hash),
                 found |-> /\ probably_contains(bloom, binary_hash)
                           /\ hd_key(binary_hash) \in DOMAIN hash_data_store]
  /\ UNCHANGED <<hd_vars, hd_call>>
  /\ UNCHANGED HdsOthers

\* no insert by steps and no scanner
HdsIdle ==
  /\ hd_call = NoCall
  /\ hd_scan = NoScan

\* the parts 6 to 8 are not in use
ExtIdle == IjIdle /\ LcIdle /\ HdsIdle

-----------------------------------------------------------------------------
(* The specifications *)

Init == HsInit /\ CdIdle /\ HdIdle /\ CmdIdle /\ ThIdle /\ ExtIdle

Next ==
  \/ \E h \in Hashes : HsInsert(h)
  \/ \E h \in Hashes : HsFind(h)

Spec == Init /\ [][Next]_vars

CodecInit == CdInit /\ HsIdle /\ HdIdle /\ CmdIdle /\ ThIdle /\ ExtIdle

CodecNext == CdEncode \/ CdDecode

SpecCodec == CodecInit /\ [][CodecNext]_vars

HashDataInit == HdInit /\ HsIdle /\ CdIdle /\ CmdIdle /\ ThIdle /\ ExtIdle

HashDataNext ==
  \E source_id \in HdSourceIds :
    \E list \in SeqsUpTo(HdEntries, MaxEntries - Len(hd_log)) \ {<<>>} :
      HdInsert(source_id, list)

SpecHashData == HashDataInit /\ [][HashDataNext]_vars

CommandsInit == CmdInit /\ HsIdle /\ CdIdle /\ HdIdle /\ ThIdle /\ ExtIdle

CommandsNext ==
  \/ CmdOpen
  \/ CmdRequireCompatibility
  \/ CmdAddStep
  \/ CmdAddMultipleStep
  \/ CmdIntersectStep
  \/ CmdSubtractStep
  \/ CmdDeduplicateStep
  \/ CmdLog
  \/ CmdMergeHistory

SpecCommands == CommandsInit /\ [][CommandsNext]_vars

ThreadsInit == ThInit /\ CdIdle /\ HdIdle /\ CmdIdle /\ ExtIdle

\* threads that call insert only
WritersNext ==
  \/ \E t \in Threads : \E h \in ThHashes : ThCallInsert(t, h)
  \/ \E t \in Threads : ThInsertLock(t)
  \/ \E t \in Threads : ThInsertGet(t)
  \/ \E t \in Threads : ThInsertNew(t)
  \/ \E t \in Threads : ThInsertDecode(t)
  \/ \E t \in Threads : ThInsertLookup(t)
  \/ \E t \in Threads : ThInsertPut(t)

\* a thread inside insert runs on
SpecWriters ==
  ThreadsInit /\ [][WritersNext]_vars /\ \A t \in Threads : WF_vars(ThInsertStep(t))

\* threads that call insert and find
ThreadsNext ==
  \/ WritersNext
  \/ \E t \in Threads : \E h \in ThHashes : ThCallFind(t, h)
  \/ \E t \in Threads : ThFindGet(t)
  \/ \E t \in Threads : ThFindDecode(t)
  \/ \E t \in Threads : ThFindLookup(t)

SpecThreads == ThreadsInit /\ [][ThreadsNext]_vars

\* the commands with a caller that may set its stop flag
CommandsStopNext == CommandsNext \/ CallerSetsStop

SpecCommandsStop == CommandsInit /\ [][CommandsStopNext]_vars

\* a command is one sequential program: it takes its next step
SpecCommandsLive == SpecCommands /\ WF_vars(CommandsNext)

\* a hash store on which insert only is called
InsertsNext == \E h \in Hashes : HsInsert(h)

SpecInserts == Init /\ [][InsertsNext]_vars

\* import_json_t::read on a stream
ImportInit == IjInit /\ HsIdle /\ CdIdle /\ HdIdle /\ CmdIdle /\ ThIdle
              /\ LcIdle /\ HdsIdle

ImportNext == IjReadLine

SpecImport == ImportInit /\ [][ImportNext]_vars

\* a hash store from its construction on
LifeCycleInit == LcInit /\ CdIdle /\ HdIdle /\ CmdIdle /\ ThIdle
                 /\ IjIdle /\ HdsIdle

LifeCycleNext ==
  \/ \E b \in LcPrefixBits : \E s \in LcSuffixBytes : LcConstruct(b, s)
  \/ \E h \in LcHashes : LcInsert(h)
  \/ \E h \in LcHashes : LcFind(h)

SpecLifeCycle == LifeCycleInit /\ [][LifeCycleNext]_vars

\* threads that call insert and find, also with an empty hash
ThreadsFatalNext ==
  \/ ThreadsNext
  \/ \E t \in Threads : \E op \in {"insert", "find"} : ThCallEmpty(t, op)

SpecThreadsFatal == ThreadsInit /\ [][ThreadsFatalNext]_vars

\* a writer in the hash-data insert and a scanner
HashDataStepsInit == HdsInit /\ HsIdle /\ CdIdle /\ CmdIdle /\ ThIdle
                     /\ IjIdle /\ LcIdle

HashDataStepsNext ==
  \/ \E source_id \in HdSourceIds :
        \E list \in SeqsUpTo(HdEntries, MaxEntries - Len(hd_log)) :
          HdsCall(source_id, list)
  \/ HdsMisaligned
  \/ HdsDuplicate
  \/ HdsPut
  \/ HdsBloomAdd
  \/ HdsReturn
  \/ \E h \in HdHashes : HdsScan(h)

SpecHashDataSteps == HashDataStepsInit /\ [][HashDataStepsNext]_vars

-----------------------------------------------------------------------------
(* Properties of the prefix/suffix hash store (specification Spec) *)

\* the hashes other than h whose insert has returned
OthersInserted(h) == hs_inserted \ {h}

\* C1: once insert(H) has returned, find(H) returns true, also after
\* further inserts of other hashes, those sharing H's prefix included
InsertedIsFound ==
  (hs_last.op = "find" /\ hs_last.hash \in hs_inserted) => hs_last.result = TRUE

\* C1 witness: find(H) has answered after insert(H) and the insert of
\* another hash with the same prefix and another suffix
InsertedIsFoundWitness ==
  /\ hs_last.op = "find"
  /\ hs_last.hash \in hs_inserted
  /\ hs_last.result = TRUE
  /\ \E g \in OthersInserted(hs_last.hash) :
        /\ hash_pair(g)[1] = hash_pair(hs_last.hash)[1]
        /\ hash_pair(g)[2] # hash_pair(hs_last.hash)[2]

\* C2 as stated: find(H) returns false for every H never passed to insert,
\* for every configured prefix_bits and suffix_bytes
NoFalsePositive ==
  (hs_last.op = "find" /\ hs_last.hash \notin hs_inserted) => hs_last.result = FALSE

\* the bytes of h that hash_pair keeps nowhere: h is longer than
\* prefix_bytes + suffix_bytes, or its last prefix byte is masked
IsLossy(h) ==
  \/ Len(h) > prefix_bytes + suffix_bytes
  \/ (prefix_bits % 8 # 0 /\ Len(h) >= prefix_bytes)

\* C2 amended: find(H) returns true for an H never passed to insert only
\* when an inserted hash has the prefix and the suffix of H, and hash_pair
\* drops bytes or bits of one of the two
FalsePositiveOnlyOnCollision ==
  (hs_last.op = "find" /\ hs_last.hash \notin hs_inserted /\ hs_last.result = TRUE)
    => \E g \in hs_inserted :
         /\ hash_pair(g) = hash_pair(hs_last.hash)
         /\ (IsLossy(g) \/ IsLossy(hs_last.hash))

\* C2 witness: find(H) has answered false for an H never inserted whose
\* prefix is stored, and that hash_pair keeps whole
FalsePositiveOnlyOnCollisionWitness ==
  /\ hs_last.op = "find"
  /\ hs_last.hash \notin hs_inserted
  /\ hs_last.result = FALSE
  /\ ~IsLossy(hs_last.hash)
  /\ hash_pair(hs_last.hash)[1] \in DOMAIN hash_store

\* h is shorter than prefix_bytes + suffix_bytes
IsShort(h) == Len(h) < prefix_bytes + suffix_bytes

-----------------------------------------------------------------------------
(* Properties of the suffix-set codec (specification SpecCodec) *)

\* C8: decode_data(encode_data(set)) is the set, and the decode consumes
\* exactly the whole encoding
CodecRoundTrip ==
  cd_pc = "decoded" => (cd_decoded = cd_strings /\ cd_consumed)

\* C8 witness: a set holding the empty string and strings whose bytes
\* read as length prefixes has been encoded and decoded
CodecRoundTripWitness ==
  /\ cd_pc = "decoded"
  /\ <<>> \in cd_strings
  /\ <<1>> \in cd_strings
  /\ <<0, 1>> \in cd_strings
  /\ Len(cd_encoding) > Cardinality(cd_strings)

-----------------------------------------------------------------------------
(* Properties of the hash-data store (specification SpecHashData) *)

\* the positions of hd_log that hold a sector-aligned observation
AlignedLog == {i \in 1..Len(hd_log) : hd_log[i].file_offset % sector_size = 0}

\* the positions of hd_log that hold an observation off the sector grid
MisalignedLog == {i \in 1..Len(hd_log) : hd_log[i].file_offset % sector_size # 0}

\* the <<source-id, offset-index>> tuples a cursor over key yields, in order
Scan(key) ==
  [i \in 1..Len(hd_values(hash_data_store, key)) |->
     decode_hash_data(hd_values(hash_data_store, key)[i])]

\* the tuple an aligned observation is to be stored as
TupleOf(e) == <<e.source_id, e.file_offset \div sector_size>>

\* the key an observation is to be stored under
KeyOf(e) ==
  IF hash_truncation # 0 /\ Len(e.binary_hash) > hash_truncation
  THEN SubSeq(e.binary_hash, 1, hash_truncation)
  ELSE e.binary_hash

\* C3: after the hash-data insert of a sector-aligned observation of H has
\* returned, new or duplicate, the bloom filter reports H possibly present,
\* whatever is inserted later
BloomHasInserted ==
  \A i \in AlignedLog : probably_contains(bloom, hd_log[i].binary_hash)

\* C3 witness: an aligned observation was submitted twice, the second time
\* as a duplicate, and an observation of another hash after it
BloomHasInsertedWitness ==
  /\ Len(hd_log) = 3
  /\ AlignedLog = {1, 2, 3}
  /\ hd_log[1] = hd_log[2]
  /\ hd_log[3].binary_hash # hd_log[1].binary_hash
  /\ hashdb_changes.hashes_not_inserted_duplicate_element = 1
  /\ probably_contains(bloom, hd_log[1].binary_hash)

\* C4: every observation whose file offset is no multiple of the sector
\* size increments hashes_not_inserted_invalid_byte_alignment by exactly
\* one and no other counter, and is absent; the rest of the list is
\* processed
MisalignedCounted ==
  /\ hashdb_changes.hashes_not_inserted_invalid_byte_alignment
       = Cardinality(MisalignedLog)
  /\ hashdb_changes.hashes_inserted
       + hashdb_changes.hashes_not_inserted_duplicate_element
       = Cardinality(AlignedLog)
  /\ hashdb_changes.hashes_not_inserted_invalid_sector_size = 0
  /\ hashdb_changes.hashes_not_inserted_mismatched_hash_block_size = 0
  /\ hashdb_changes.hashes_not_inserted_exceeds_max_duplicates = 0

\* C5: the store holds no two entries with the same (key, source-id,
\* offset-index), and an aligned observation (H, S, O) submitted one or
\* more times is stored as (S, O / sector_size) under H exactly once
StoredExactlyOnce ==
  /\ \A key \in DOMAIN hash_data_store :
        \A i, j \in 1..Len(Scan(key)) : Scan(key)[i] = Scan(key)[j] => i = j
  /\ \A n \in AlignedLog :
        Cardinality({i \in 1..Len(Scan(KeyOf(hd_log[n]))) :
                       Scan(KeyOf(hd_log[n]))[i] = TupleOf(hd_log[n])}) = 1

\* C5 witness: an aligned observation with an offset index above 127 was
\* submitted twice and another observation of the same hash once
StoredExactlyOnceWitness ==
  /\ Len(hd_log) = 3
  /\ AlignedLog = {1, 2, 3}
  /\ hd_log[1] = hd_log[3]
  /\ TupleOf(hd_log[1])[2] > 127
  /\ hd_log[2].binary_hash = hd_log[1].binary_hash
  /\ hd_log[2] # hd_log[1]
  /\ Len(Scan(KeyOf(hd_log[1]))) = 2

\* C6: the same aligned observation submitted k >= 1 times to an empty
\* store leaves hashes_inserted at 1 and
\* hashes_not_inserted_duplicate_element at k - 1, no other counter moved
SameObservationCounted ==
  (/\ Len(hd_log) >= 1
   /\ AlignedLog = 1..Len(hd_log)
   /\ \A i \in 1..Len(hd_log) : hd_log[i] = hd_log[1])
    => /\ hashdb_changes.hashes_inserted = 1
       /\ hashdb_changes.hashes_not_inserted_duplicate_element = Len(hd_log) - 1
       /\ hashdb_changes.hashes_not_inserted_invalid_sector_size = 0
       /\ hashdb_changes.hashes_not_inserted_invalid_byte_alignment = 0
       /\ hashdb_changes.hashes_not_inserted_mismatched_hash_block_size = 0
       /\ hashdb_changes.hashes_not_inserted_exceeds_max_duplicates = 0

\* C6 witness: one aligned observation was submitted three times
SameObservationCountedWitness ==
  /\ Len(hd_log) = 3
  /\ AlignedLog = {1, 2, 3}
  /\ hd_log[1] = hd_log[2]
  /\ hd_log[2] = hd_log[3]
  /\ hashdb_changes.hashes_not_inserted_duplicate_element = 2

\* numeric order of <<source-id, offset-index>> tuples
TupleLess(a, b) == a[1] < b[1] \/ (a[1] = b[1] /\ a[2] < b[2])

\* the tuples of the aligned observations submitted for key
Submitted(key) == {TupleOf(hd_log[n]) : n \in {m \in AlignedLog : KeyOf(hd_log[m]) = key}}

\* C7 as stated: a cursor over a block hash yields its tuples in numeric
\* (source-id, then offset-index) order
ScanSortedNumerically ==
  \A key \in DOMAIN hash_data_store :
    \A i, j \in 1..Len(Scan(key)) : i < j => TupleLess(Scan(key)[i], Scan(key)[j])

\* C7 amended: a cursor over a block hash yields the tuples submitted for
\* it in the byte order of their encodings, which is the numeric order
\* of two tuples when their source-ids and offset-indexes are below 128
ScanSortedByEncoding ==
  \A key \in DOMAIN hash_data_store :
    /\ {Scan(key)[i] : i \in 1..Len(Scan(key))} = Submitted(key)
    /\ \A i, j \in 1..Len(Scan(key)) : i < j =>
          /\ LexLess(encode_hash_data(Scan(key)[i][1], Scan(key)[i][2]),
                     encode_hash_data(Scan(key)[j][1], Scan(key)[j][2]))
          /\ (\A t \in {Scan(key)[i], Scan(key)[j]} : t[1] < 128 /\ t[2] < 128)
                => TupleLess(Scan(key)[i], Scan(key)[j])

\* C7 witness: a key holds two tuples below 128 and one above, the one
\* with the larger source-id having been submitted first
ScanSortedByEncodingWitness ==
  /\ Len(hd_log) = 3
  /\ AlignedLog = {1, 2, 3}
  /\ hd_log[1].source_id > hd_log[2].source_id
  /\ Len(Scan(KeyOf(hd_log[1]))) = 3
  /\ Scan(KeyOf(hd_log[1]))[1][2] < 128
  /\ Scan(KeyOf(hd_log[1]))[2][2] < 128
  /\ Scan(KeyOf(hd_log[1]))[3][2] > 127

-----------------------------------------------------------------------------
(* Properties of the set-algebra commands (specification SpecCommands) *)

\* the directories of the databases of the command
CmdDatabases == {cmd_dirs[i] : i \in 1..(IF cmd_op \in Ops3 THEN 3 ELSE 2)}

\* two of the directories of the command are identical
SameDirectory == Cardinality(CmdDatabases) < (IF cmd_op \in Ops3 THEN 3 ELSE 2)

\* hash_block_size differs between two of the opened databases
UnequalBlockSize ==
  \E d, e \in CmdDatabases : db[d].hash_block_size # db[e].hash_block_size

\* C10: every set-algebra operator refuses to operate when two of its
\* directories are identical or hash_block_size differs between two of
\* its databases: it exits before any element is inserted into the
\* destination and before any history is merged
RefusedBeforeInsert ==
  (cmd_pc # "start" /\ (SameDirectory \/ UnequalBlockSize))
    => /\ cmd_pc \in {"check", "exit"}
       /\ cmd_submitted = <<>>
       /\ cmd_merged = <<>>
       /\ cmd_changes.hashes_inserted = 0

\* C10 witness: a three-database operator has exited because its
\* destination is one of its non-empty inputs
RefusedBeforeInsertWitness ==
  /\ cmd_pc = "exit"
  /\ cmd_op \in Ops3
  /\ cmd_dirs[1] = cmd_dirs[3]
  /\ cmd_dirs[1] # cmd_dirs[2]
  /\ ~UnequalBlockSize
  /\ db[cmd_dirs[1]].content # <<>>
  /\ db[cmd_dirs[2]].content # <<>>

\* the elements a database holds
ElemSet(dir) == {db[dir].content[i] : i \in 1..Len(db[dir].content)}

\* the block-hash keys a database holds
Keys(dir) == {e.key : e \in ElemSet(dir)}

\* the loops of the command are over and its changes are logged
LoopsOver == cmd_pc \in {"merge", "done"}

\* the destination was empty when the command began: insert only adds
\* elements, and counts each element it adds in hashes_inserted
DestWasEmpty == Len(db[Dest].content) = cmd_changes.hashes_inserted

\* the elements of A and of B whose key is in both
InBoth(d1, d2) ==
  {e \in ElemSet(d1) \cup ElemSet(d2) : e.key \in Keys(d1) \cap Keys(d2)}

\* intersect has left in C exactly the elements of both inputs whose key
\* occurs in both
IntersectResult ==
  (cmd_op = "intersect" /\ LoopsOver /\ DestWasEmpty)
    => ElemSet(cmd_dirs[3]) = InBoth(cmd_dirs[1], cmd_dirs[2])

\* C11: intersect(A, B -> C) with C initially empty leaves C holding
\* exactly the elements of A and of B whose key occurs in both, whichever
\* input drives the loop and however many elements a key has, and the
\* driver loop terminates
IntersectExactAndEnds ==
  /\ []IntersectResult
  /\ (cmd_op = "intersect" /\ cmd_pc = "loop") ~> LoopsOver

\* C11 witness: intersect has ended with the second input as the driver,
\* a key of two elements in the first input matched by the second, and a
\* key that is in the first input only
IntersectExactAndEndsWitness ==
  /\ cmd_op = "intersect" /\ cmd_pc = "done"
  /\ Smaller = cmd_dirs[2] /\ Smaller # Larger
  /\ \E k \in Keys(cmd_dirs[2]) : find_count(cmd_dirs[1], k) = 2
  /\ Keys(cmd_dirs[1]) \ Keys(cmd_dirs[2]) # {}
  /\ Len(db[cmd_dirs[3]].content) = 2

\* the elements of a sequence that have this key, in their order
WithKey(es, k) == SelectSeq(es, LAMBDA e : e.key = k)

\* C12: add_multiple(A, B -> C) is an ordered merge: the keys submitted
\* are non-decreasing, and once the loops are over the elements submitted
\* for a key are those of A, each once, then those of B, each once; with
\* C initially empty C ends with the union of A and B
AddMultipleMerges ==
  cmd_op = "add_multiple" =>
    /\ \A i, j \in 1..Len(cmd_submitted) :
          i < j => cmd_submitted[i].key <= cmd_submitted[j].key
    /\ LoopsOver =>
         /\ \A k \in {e.key : e \in Elements} :
               WithKey(cmd_submitted, k)
                 = WithKey(db[cmd_dirs[1]].content, k) \o WithKey(db[cmd_dirs[2]].content, k)
         /\ DestWasEmpty =>
               ElemSet(cmd_dirs[3]) = ElemSet(cmd_dirs[1]) \cup ElemSet(cmd_dirs[2])

\* C12 witness: add_multiple has ended on inputs that share a key, each
\* with an observation of its own for it, and one input has another key
AddMultipleMergesWitness ==
  /\ cmd_op = "add_multiple" /\ cmd_pc = "done"
  /\ \E k \in Keys(cmd_dirs[1]) \cap Keys(cmd_dirs[2]) :
        /\ WithKey(db[cmd_dirs[1]].content, k) # WithKey(db[cmd_dirs[2]].content, k)
        /\ Len(WithKey(db[cmd_dirs[3]].content, k)) = 2
  /\ Keys(cmd_dirs[2]) \ Keys(cmd_dirs[1]) # {}
  /\ Len(cmd_submitted) >= 3

\* C13: subtract(A, B -> C) with C initially empty leaves C holding
\* exactly the elements of A whose key does not occur in B; A and B of
\* equal content give an empty C
SubtractResult ==
  (cmd_op = "subtract" /\ LoopsOver /\ DestWasEmpty)
    => /\ ElemSet(cmd_dirs[3])
            = {e \in ElemSet(cmd_dirs[1]) : e.key \notin Keys(cmd_dirs[2])}
       /\ db[cmd_dirs[1]].content = db[cmd_dirs[2]].content
            => db[cmd_dirs[3]].content = <<>>

\* C13 witness: subtract has ended on an A with two keys, one of them in
\* B with another observation, and C holds the element of the other key
SubtractResultWitness ==
  /\ cmd_op = "subtract" /\ cmd_pc = "done"
  /\ Cardinality(Keys(cmd_dirs[1])) = 2
  /\ Cardinality(Keys(cmd_dirs[1]) \cap Keys(cmd_dirs[2])) = 1
  /\ ElemSet(cmd_dirs[1]) \cap ElemSet(cmd_dirs[2]) = {}
  /\ Len(db[cmd_dirs[3]].content) = 1

\* C14: deduplicate(A -> B) with B initially empty leaves B holding
\* exactly the elements of A whose key occurs once in A
DeduplicateResult ==
  (cmd_op = "deduplicate" /\ LoopsOver /\ DestWasEmpty)
    => ElemSet(cmd_dirs[2])
         = {e \in ElemSet(cmd_dirs[1]) : find_count(cmd_dirs[1], e.key) = 1}

\* C14 witness: deduplicate has ended on an A with a key of two elements
\* and a key of one, and B holds the one
DeduplicateResultWitness ==
  /\ cmd_op = "deduplicate" /\ cmd_pc = "done"
  /\ \E k \in Keys(cmd_dirs[1]) : find_count(cmd_dirs[1], k) = 2
  /\ \E k \in Keys(cmd_dirs[1]) : find_count(cmd_dirs[1], k) = 1
  /\ Len(db[cmd_dirs[2]].content) = 1
  /\ cmd_changes.hashes_inserted = 1

\* add has given every element of A to insert once, and B equals A by
\* content if it was empty
AddResult ==
  (cmd_op = "add" /\ LoopsOver)
    => /\ cmd_submitted = db[cmd_dirs[1]].content
       /\ ElemSet(cmd_dirs[1]) \subseteq ElemSet(cmd_dirs[2])
       /\ DestWasEmpty => db[cmd_dirs[2]].content = db[cmd_dirs[1]].content

\* a step of add removes no element from B
AddKeeps ==
  cmd_op = "add" =>
    \A i \in 1..Len(db[cmd_dirs[2]].content) :
      \E j \in 1..Len(db'[cmd_dirs[2]].content) :
        db'[cmd_dirs[2]].content[j] = db[cmd_dirs[2]].content[i]

\* C15: add(A -> B) submits every element of A to B exactly once and
\* removes nothing from B; an empty B ends equal to A by content
AddSubmitsAll == []AddResult /\ [][AddKeeps]_vars

\* C15 witness: add has ended on a B that held an element of A and an
\* element that is not in A
AddSubmitsAllWitness ==
  /\ cmd_op = "add" /\ cmd_pc = "done"
  /\ Len(cmd_submitted) >= 2
  /\ cmd_changes.hashes_not_inserted_duplicate_element = 1
  /\ ElemSet(cmd_dirs[2]) \ ElemSet(cmd_dirs[1]) # {}

\* C16 as stated: intersect with the database A given as both inputs
\* completes and leaves the destination with exactly the content of A
IntersectSelfCompletes ==
  (cmd_op = "intersect" /\ cmd_dirs[1] = cmd_dirs[2]
     /\ cmd_dirs[3] \notin {cmd_dirs[1], cmd_dirs[2]}
     /\ cmd_pc \notin {"start", "check"})
    => /\ cmd_pc # "exit"
       /\ cmd_pc = "done" => db[cmd_dirs[3]].content = db[cmd_dirs[1]].content

\* C16 amended: intersect of A with a database of equal content in
\* another directory leaves an initially empty destination with exactly
\* the content of A; with one directory given as both inputs intersect
\* exits before any element is inserted
IntersectEqualContent ==
  cmd_op = "intersect" =>
    /\ (LoopsOver /\ DestWasEmpty
          /\ db[cmd_dirs[1]].content = db[cmd_dirs[2]].content)
         => db[cmd_dirs[3]].content = db[cmd_dirs[1]].content
    /\ (cmd_dirs[1] = cmd_dirs[2] /\ cmd_pc \notin {"start", "check"})
         => (cmd_pc = "exit" /\ cmd_submitted = <<>>)

\* C16 witness: intersect has ended on two directories of equal content,
\* a key of two elements and a key of one
IntersectEqualContentWitness ==
  /\ cmd_op = "intersect" /\ cmd_pc = "done"
  /\ cmd_dirs[1] # cmd_dirs[2]
  /\ db[cmd_dirs[1]].content = db[cmd_dirs[2]].content
  /\ Len(db[cmd_dirs[3]].content) = 3
  /\ Cardinality(Keys(cmd_dirs[3])) = 2

\* every iterator of the command is at its end
IteratorsAtEnd ==
  IF cmd_op = "intersect" THEN AtEnd(Smaller, it1)
  ELSE IF cmd_op = "add_multiple"
       THEN AtEnd(cmd_dirs[1], it1) /\ AtEnd(cmd_dirs[2], it2)
       ELSE AtEnd(cmd_dirs[1], it1)

\* C19: the history of every input is merged into the destination once,
\* and only after every element was processed and the changes of the
\* command were logged
HistoryMergedOnCompletion ==
  /\ cmd_pc \in {"merge", "done"} =>
        /\ IteratorsAtEnd
        /\ SubSeq(db[Dest].history, 1, 2) = <<"create", cmd_op>>
  /\ cmd_pc # "done" => cmd_merged = <<>>
  /\ cmd_pc = "merge" => db[Dest].history = <<"create", cmd_op>>
  /\ cmd_pc = "done" =>
        /\ cmd_merged = IF cmd_op \in Ops3 THEN <<cmd_dirs[1], cmd_dirs[2]>>
                        ELSE <<cmd_dirs[1]>>
        /\ db[Dest].history
             = <<"create", cmd_op>>
                 \o db[cmd_dirs[1]].history
                 \o (IF cmd_op \in Ops3 THEN db[cmd_dirs[2]].history ELSE <<>>)

\* C19 witness: a command on two inputs has ended after it inserted
\* elements, and the destination holds both histories after its own log
HistoryMergedOnCompletionWitness ==
  /\ cmd_pc = "done" /\ cmd_op \in Ops3
  /\ Len(cmd_submitted) >= 2
  /\ cmd_merged = <<cmd_dirs[1], cmd_dirs[2]>>
  /\ Len(db[Dest].history) = 4

\* C20 as stated: once the stop flag is set a bulk operator inserts at
\* most the record in progress and then stops; stated of the operators
\* that give one element to insert per turn of their loop
StopFlagHonoured ==
  (stop_flag.set /\ cmd_op \in {"add", "add_multiple", "subtract", "deduplicate"})
    => Len(cmd_submitted) <= stop_flag.at + 1

-----------------------------------------------------------------------------
(* Properties of threads on one hash store (SpecThreads, SpecWriters) *)

\* the hashes whose insert has returned or is under way
InsertsBegun ==
  hs_inserted \cup {th_state[t].hash : t \in {u \in Threads : th_state[u].op = "insert"}}

\* C17 as stated: every find that runs concurrently with other finds and
\* with an insert returns an answer that a sequential order of the calls
\* gives: true for a hash whose insert had returned when find was called,
\* and true only for a hash whose prefix and suffix an insert has stored
\* or is storing
FindLinearizable ==
  \A t \in Threads :
    (th_state[t].op = "find" /\ th_state[t].pc = "returned")
      => /\ th_state[t].expect => th_state[t].result
         /\ th_state[t].result =>
              \E g \in InsertsBegun : hash_pair(g) = hash_pair(th_state[t].hash)

\* t is between MUTEX_LOCK and MUTEX_UNLOCK
InCritical(t) ==
  th_state[t].pc \in {"insert_get", "insert_new", "insert_decode",
                      "insert_lookup", "insert_put"}

\* the suffix of h is in the set stored at the prefix of h
SuffixStored(h) ==
  /\ hash_pair(h)[1] \in DOMAIN hash_store
  /\ hash_pair(h)[2] \in decode_data(hash_store[hash_pair(h)[1]])

\* at most one thread is between MUTEX_LOCK and MUTEX_UNLOCK, a thread
\* holds the mutex exactly while it is there, and the store holds the
\* suffix of every hash whose insert has returned
WritesSerialized ==
  /\ \A t, u \in Threads : (InCritical(t) /\ InCritical(u)) => t = u
  /\ \A t \in Threads : InCritical(t) <=> M = t
  /\ \A h \in hs_inserted : SuffixStored(h)
  /\ Running

\* C18: inserts of several threads are serialized by the mutex: at most
\* one is between MUTEX_LOCK and MUTEX_UNLOCK, every return releases the
\* mutex, so that every call completes, and no update is lost
InsertsSerialized ==
  /\ []WritesSerialized
  /\ \A t \in Threads :
        (th_state[t].pc = "insert_lock") ~> (th_state[t].pc = "returned")

\* C18 witness: two threads have returned from insert of two hashes with
\* one prefix, and the store holds both suffixes at that prefix
InsertsSerializedWitness ==
  /\ \A t \in Threads : th_state[t].op = "insert" /\ th_state[t].pc = "returned"
  /\ th_state["t1"].hash # th_state["t2"].hash
  /\ hash_pair(th_state["t1"].hash)[1] = hash_pair(th_state["t2"].hash)[1]
  /\ Cardinality(decode_data(hash_store[hash_pair(th_state["t1"].hash)[1]])) = 2
  /\ lmdb_changes.hash_inserted = 2
  /\ M = "none"

-----------------------------------------------------------------------------
(* Properties of the JSON import (specification SpecImport) *)

\* the lines read so far
Processed == SubSeq(in_lines, 1, in_pos)

\* a line that is empty, starts with '#', does not parse as a JSON object,
\* or has neither file_hash nor block_hash
BadLine(id) ==
  LET line == Lines[id]
  IN  \/ line.size = 0
      \/ line.first = "#"
      \/ line.parse_error
      \/ ~IsObject(line.document)
      \/ /\ ~HasMember(line.document, "file_hash")
         /\ ~HasMember(line.document, "block_hash")

\* a bad line that is reported: it is not skipped as empty or as a comment
ReportedBadLine(id) ==
  BadLine(id) /\ Lines[id].size # 0 /\ Lines[id].first # "#"

\* the manager calls of a stream of lines read one after the other
RECURSIVE calls_of(_)
calls_of(ids) ==
  IF ids = <<>> THEN <<>>
  ELSE read_line(Lines[Head(ids)]).calls \o calls_of(Tail(ids))

WellFormedBlock(id) ==
  LET line == Lines[id]
      d == line.document
  IN  /\ ~BadLine(id)
      /\ ~HasMember(d, "file_hash")
      /\ HasMember(d, "block_hash") /\ IsString(d.m.block_hash)
      /\ HasMember(d, "entropy") => IsUint64(d.m.entropy)
      /\ HasMember(d, "block_label") => IsString(d.m.block_label)
      /\ HasMember(d, "source_offset_pairs") /\ IsArray(d.m.source_offset_pairs)
      /\ Len(d.m.source_offset_pairs.a) % 2 = 0
      /\ \A i \in 1..Len(d.m.source_offset_pairs.a) :
            IF i % 2 = 1 THEN IsString(d.m.source_offset_pairs.a[i])
            ELSE IsUint64(d.m.source_offset_pairs.a[i])

\* the n calls of insert_hash a well formed block-hash record stands for
PairCalls(id) ==
  LET d == Lines[id].document
      pairs == d.m.source_offset_pairs.a
  IN  [i \in 1..(Len(pairs) \div 2) |->
         insert_hash(hex_to_bin(d.m.block_hash.s),
                     hex_to_bin(pairs[2 * i - 1].s),
                     pairs[2 * i].n,
                     IF HasMember(d, "entropy") THEN d.m.entropy.n ELSE 0,
                     IF HasMember(d, "block_label") THEN d.m.block_label.s ELSE "")]

\* C22: reading a block-hash record whose source_offset_pairs holds 2n
\* alternating entries calls insert_hash exactly n times, in array order,
\* the i-th call with the block hash, the i-th source file hash and the
\* i-th file offset, entropy and block_label defaulting to 0 and ""
PairsInsertedInOrder ==
  [][(in_pos' = in_pos + 1 /\ WellFormedBlock(in_lines[in_pos + 1]))
       => manager_calls' = manager_calls \o PairCalls(in_lines[in_pos + 1])]_vars

\* C22 witness: the record with two pairs and no entropy was read last,
\* after another record, and its two calls are the last two
PairsInsertedInOrderWitness ==
  /\ in_pos >= 2
  /\ in_lines[in_pos] = 12
  /\ Len(manager_calls) > 2
  /\ SubSeq(manager_calls, Len(manager_calls) - 1, Len(manager_calls))
       = <<insert_hash(<<31>>, <<16>>, 512, 0, ""),
           insert_hash(<<31>>, <<31>>, 1024, 0, "")>>

\* C28: a record that is reported invalid leaves the database unchanged:
\* the turn of read_lines that reports it makes no manager call
InvalidRecordNoCall ==
  [][invalid_lines' # invalid_lines => manager_calls' = manager_calls]_vars

-----------------------------------------------------------------------------
(* Properties of the hash store life cycle (specifications                 *)
(* SpecThreadsFatal and SpecLifeCycle)                                     *)

\* the call that aborts leaves the store, the counters and the mutex alone
AbortTouchesNothing ==
  hs_status' = "abort"
    => UNCHANGED <<hash_store, suffix_strings, lmdb_changes, hs_inserted, M>>

\* C23: insert or find with an empty hash is rejected as a fatal error
\* before any store access: the mutex is not taken, no key is read or
\* written, no change counter moves, and nothing runs after it
EmptyHashRejected ==
  /\ [](\A t \in Threads :
          (th_state[t].op # "none" /\ th_state[t].hash = <<>>)
            => /\ th_state[t].pc = "abort"
               /\ hs_status = "abort"
               /\ M # t)
  /\ [][AbortTouchesNothing]_vars
  /\ [][hs_status = "open"]_vars

\* C23 witness: a thread called insert with an empty hash while the other
\* thread held the mutex over a store that holds a hash
EmptyHashRejectedWitness ==
  \E t, u \in Threads :
    /\ th_state[t].pc = "abort"
    /\ th_state[t].op = "insert"
    /\ M = u
    /\ hash_store # <<>>
    /\ lmdb_changes.hash_inserted = 1

\* the hash prefix bits given to the constructor are zero
ZeroPrefixBits == prefix_bits_hi = 0 /\ prefix_bits = 0

\* ceil(p_hash_prefix_bits / 8)
CeilPrefixBytes ==
  prefix_bits_hi * (Half \div 8) + prefix_bits \div 8
    + (IF prefix_bits % 8 = 0 THEN 0 ELSE 1)

\* p_hash_prefix_bits + 7 does not fit a uint32_t
PrefixBitsWrap == prefix_bits_hi = Half - 1 /\ prefix_bits + 7 >= Half

\* C24 as stated: construction fails for prefix_bits = 0, no insert or find
\* runs on it; for every prefix_bits >= 1 construction succeeds with
\* prefix_bytes = ceil(prefix_bits / 8)
ConstructionFailsOnlyForZero ==
  hs_status # "none"
    => /\ ZeroPrefixBits => hs_status = "abort"
       /\ hs_status = "abort" => (hs_calls = 0 /\ hs_last.op = "none")
       /\ ~ZeroPrefixBits => (hs_status # "abort" /\ prefix_bytes = CeilPrefixBytes)

\* C24 amended: construction fails for prefix_bits = 0 and for the seven
\* values above 2^32 - 8, where prefix_bits + 7 wraps to less than 8; no
\* insert or find runs on a failed construction; for every prefix_bits from
\* 1 to 2^32 - 8 it succeeds with prefix_bytes = ceil(prefix_bits / 8)
ConstructionFailsForZeroOrWrap ==
  hs_status # "none"
    => /\ (ZeroPrefixBits \/ PrefixBitsWrap) => hs_status = "abort"
       /\ hs_status = "abort" => (hs_calls = 0 /\ hs_last.op = "none")
       /\ (~ZeroPrefixBits /\ ~PrefixBitsWrap)
            => (hs_status # "abort" /\ prefix_bytes = CeilPrefixBytes)

\* C24 witness: the constructor was given prefix_bits = 0 and has failed
ConstructionFailsForZeroOrWrapWitness ==
  /\ ZeroPrefixBits
  /\ hs_status = "abort"
  /\ suffix_bytes = 1

\* C30: encode_data never writes past its buffer: the encoded length of
\* every suffix set insert builds is at most 16 times its number of
\* suffixes
EncodeWithinBuffer ==
  /\ hs_status # "overflow"
  /\ Len(encode_data(suffix_strings)) <= BytesPerString * Cardinality(suffix_strings)

-----------------------------------------------------------------------------
(* Properties of the hash-data insert by steps (specification              *)
(* SpecHashDataSteps)                                                      *)

\* C25: a scanner never sees a bloom false negative while a writer is
\* inserting: every block hash with a committed entry in the hash-data
\* store is reported possibly present, in the states between the steps of
\* an insert as well
NoBloomFalseNegative ==
  /\ \A i \in 1..Len(hd_log) :
        has_pair(hash_data_store, hd_key(hd_log[i].binary_hash),
                 entry_data(hd_log[i].source_id, hd_log[i].file_offset))
          => probably_contains(bloom, hd_log[i].binary_hash)
  /\ hd_scan.committed => hd_scan.possibly_present

-----------------------------------------------------------------------------
(* More properties of the prefix/suffix hash store (specification          *)
(* SpecInserts)                                                            *)

\* the suffixes stored under a prefix
SuffixesAt(store, prefix) ==
  IF prefix \in DOMAIN store THEN decode_data(store[prefix]) ELSE {}

\* what insert(h) is to do in a step
InsertCounted(h) ==
  LET pair == hash_pair(h)
  IN  IF pair[2] \in SuffixesAt(hash_store, pair[1])
      THEN /\ lmdb_changes' = [lmdb_changes EXCEPT !.hash_already_present = @ + 1]
           /\ hash_store' = hash_store
      ELSE /\ lmdb_changes' = [lmdb_changes EXCEPT !.hash_inserted = @ + 1]
           /\ DOMAIN hash_store' = DOMAIN hash_store \cup {pair[1]}
           /\ \A k \in DOMAIN hash_store' :
                 SuffixesAt(hash_store', k) =
                   IF k = pair[1] THEN SuffixesAt(hash_store, k) \cup {pair[2]}
                   ELSE SuffixesAt(hash_store, k)

\* C26: each insert increments exactly one of hash_inserted and
\* hash_already_present by one: hash_already_present exactly when the store
\* held the suffix of H under the prefix of H, the store then left
\* unchanged; hash_inserted otherwise, the only change being suffix(H)
\* added to the set at prefix(H)
InsertCountsOnce ==
  [][\A h \in Hashes : HsInsert(h) => InsertCounted(h)]_vars

\* C26 witness: one insert found its hash already present, and one added a
\* suffix to the set of a prefix
InsertCountsOnceWitness ==
  /\ lmdb_changes = [hash_inserted |-> 1, hash_already_present |-> 1]
  /\ \E k \in DOMAIN hash_store : SuffixesAt(hash_store, k) # {<<>>}

-----------------------------------------------------------------------------
(* More properties of the hash-data store (specification SpecHashData) *)

\* the first hash_truncation bytes of a block hash when hash_truncation is
\* non-zero and the hash is longer, the whole hash otherwise
Truncated(h) ==
  IF hash_truncation = 0 \/ Len(h) <= hash_truncation THEN h
  ELSE [i \in 1..hash_truncation |-> h[i]]

\* the aligned observations before n with the key, source-id and
\* offset-index of observation n
EarlierSame(n) ==
  {m \in AlignedLog :
     /\ m < n
     /\ Truncated(hd_log[m].binary_hash) = Truncated(hd_log[n].binary_hash)
     /\ TupleOf(hd_log[m]) = TupleOf(hd_log[n])}

\* C27: an observation is stored under the first hash_truncation bytes of
\* its block hash when hash_truncation is non-zero and the hash is longer,
\* under the whole hash otherwise; block hashes that agree on these bytes
\* share one key, and the same (source-id, offset-index) submitted for both
\* is counted as a duplicate the second time
TruncatedKeyShared ==
  /\ DOMAIN hash_data_store = {Truncated(hd_log[n].binary_hash) : n \in AlignedLog}
  /\ \A n \in AlignedLog :
        \E i \in 1..Len(Scan(Truncated(hd_log[n].binary_hash))) :
          Scan(Truncated(hd_log[n].binary_hash))[i] = TupleOf(hd_log[n])
  /\ hashdb_changes.hashes_not_inserted_duplicate_element
       = Cardinality({n \in AlignedLog : EarlierSame(n) # {}})

\* C27 witness: with hash_truncation = 1, two block hashes that agree on
\* their first byte were submitted with one (source-id, offset): one key
\* holds one entry and the second observation was counted as a duplicate
TruncatedKeySharedWitness ==
  /\ hash_truncation = 1
  /\ Len(hd_log) = 2
  /\ AlignedLog = {1, 2}
  /\ hd_log[1].binary_hash # hd_log[2].binary_hash
  /\ TupleOf(hd_log[1]) = TupleOf(hd_log[2])
  /\ DOMAIN hash_data_store = {<<16>>}
  /\ Len(hash_data_store[<<16>>]) = 1
  /\ hashdb_changes.hashes_inserted = 1
  /\ hashdb_changes.hashes_not_inserted_duplicate_element = 1

-----------------------------------------------------------------------------
(* More properties of the commands (specification SpecCommands) *)

\* the call is going to be refused: two of its directories are identical,
\* or hash_block_size differs between two of its databases that exist
WillBeRefused ==
  \/ SameDirectory
  \/ \E d, e \in CmdDatabases :
       /\ db[d].exists /\ db[e].exists
       /\ db[d].hash_block_size # db[e].hash_block_size

\* C29: when an operator is refused for identical directories or unequal
\* hash_block_size, nothing has been changed on disk: a destination that
\* did not exist has not been created
RefusedLeavesDisk ==
  [][(cmd_pc = "start" /\ WillBeRefused) => db' = db]_vars

====
